---- MODULE Spec2Model ----
(***************************************************************************)
(* A model of xmlgenerator: the collected schema model (ElementGenerator,  *)
(* TypeGenerator, GroupGenerator, AttributeGenerator), root selection      *)
(* (find_root_element) and the recursive tree builder                      *)
(* (ElementGenerator::generate, generate_reference, generate_type_output,  *)
(* TypeGenerator::generate, AttributeGenerator::generate), run by          *)
(* generate_xml (Spec); TypeGenerator::generate called on its own          *)
(* (TypeOutputSpec); generate_xml from the schema text on, with the        *)
(* collectors fetch_types and fetch_elements (CollectSpec); and two runs   *)
(* of generate_output on the same schema model (TwoRunsSpec).              *)
(*                                                                         *)
(* Option<String> is a sequence of length 0 (None) or 1 (Some).            *)
(* Result<T, XMLGeneratorError> is a record tagged "Ok" or "Err".          *)
(***************************************************************************)
EXTENDS Integers, Sequences, FiniteSets, TLC

\* ------------------------------------------------------------------------
\* Bounds of the model
\* ------------------------------------------------------------------------

\* longest list of top-level elements that is explored
MaxElements == 2

\* deepest recursion stack of the tree builder that is explored
MaxDepth == 11

\* ------------------------------------------------------------------------
\* Option and Result
\* ------------------------------------------------------------------------

None == <<>>

Some(x) == <<x>>

is_some(o) == Len(o) > 0

unwrap(o) == o[1]

\* XMLElement of the xml_builder crate: tag, optional text, children, attributes
XMLElement_new(name) ==
    [tag |-> name, text |-> None, children |-> <<>>, attributes |-> <<>>]

NoNode == XMLElement_new("")

Ok(v) == [tag |-> "Ok", val |-> v, kind |-> "", msg |-> ""]

Err(k, m) == [tag |-> "Err", val |-> NoNode, kind |-> k, msg |-> m]

DataTypeError(m) == Err("DataTypeError", m)

XSDParserError(m) == Err("XSDParserError", m)

DataTypesFormatError(m) == Err("DataTypesFormatError", m)

XMLBuilderError(m) == Err("XMLBuilderError", m)

\* the thread has panicked: no Result is returned to any caller
Panicked(m) == [tag |-> "Panic", val |-> NoNode, kind |-> "panic", msg |-> m]

is_ok(r) == r.tag = "Ok"

is_err(r) == r.tag = "Err"

\* ------------------------------------------------------------------------
\* The collected model
\* ------------------------------------------------------------------------

ElementGenerator_new ==
    [name |-> None, contents |-> <<>>, type_info |-> None, reference |-> None,
     min |-> 1, max |-> None]

TypeGenerator_new ==
    [name |-> "", type_info |-> <<>>, elements |-> <<>>, groups |-> <<>>,
     attributes |-> <<>>, min |-> 1, max |-> None]

GroupInfo_new == [elements |-> <<>>, min |-> 0, max |-> None]

AttributeGenerator_new ==
    [name |-> "", attribute_type |-> "Required", type_name |-> ""]

\* ElementGenerator::get_name: the name, else the reference, else an error
get_name(e) ==
    IF is_some(e.name) THEN Ok(unwrap(e.name))
    ELSE IF is_some(e.reference) THEN Ok(unwrap(e.reference))
    ELSE DataTypesFormatError("Element does not have a name or a reference")

\* ------------------------------------------------------------------------
\* PartialEq of the collected model
\* ------------------------------------------------------------------------

RECURSIVE ElementGenerator_eq(_, _)

RECURSIVE TypeGenerator_eq(_, _)

\* Vec<T>::eq with T::eq given by Eq: same length, equal item by item
VecEq(Eq(_, _), s, t) ==
    /\ Len(s) = Len(t)
    /\ \A i \in 1..Len(s) : Eq(s[i], t[i])

\* GroupGenerator::eq: elements, min, max
GroupGenerator_eq(a, b) ==
    /\ VecEq(ElementGenerator_eq, a.elements, b.elements)
    /\ a.min = b.min
    /\ a.max = b.max

\* AttributeGenerator::eq: name, type_name, attribute_type
AttributeGenerator_eq(a, b) ==
    /\ a.name = b.name
    /\ a.type_name = b.type_name
    /\ a.attribute_type = b.attribute_type

\* TypeGenerator::eq: every field
TypeGenerator_eq(a, b) ==
    /\ a.name = b.name
    /\ a.type_info = b.type_info
    /\ VecEq(ElementGenerator_eq, a.elements, b.elements)
    /\ VecEq(GroupGenerator_eq, a.groups, b.groups)
    /\ VecEq(AttributeGenerator_eq, a.attributes, b.attributes)
    /\ a.min = b.min
    /\ a.max = b.max

\* ElementGenerator::eq: name, type_info and contents; reference, min and
\* max are not compared
ElementGenerator_eq(a, b) ==
    /\ a.name = b.name
    /\ a.type_info = b.type_info
    /\ Len(a.contents) = Len(b.contents)
    /\ VecEq(TypeGenerator_eq, a.contents, b.contents)

\* Vec<&ElementGenerator>::contains
contains(vec, g) == \E i \in 1..Len(vec) : ElementGenerator_eq(vec[i], g)

\* ------------------------------------------------------------------------
\* Sequence helpers
\* ------------------------------------------------------------------------

RECURSIVE Flatten(_)

\* the concatenation of a sequence of sequences
Flatten(ss) == IF ss = <<>> THEN <<>> ELSE Head(ss) \o Flatten(Tail(ss))

\* the items of s that satisfy Test, in order
RECURSIVE Filter(_, _)

Filter(Test(_), s) ==
    IF s = <<>> THEN <<>>
    ELSE IF Test(Head(s)) THEN <<Head(s)>> \o Filter(Test, Tail(s))
    ELSE Filter(Test, Tail(s))

Min(S) == CHOOSE x \in S : \A y \in S : x <= y

\* ------------------------------------------------------------------------
\* Root selection (find_root.rs)
\* ------------------------------------------------------------------------

\* the order in which a type's child elements are visited: its direct
\* elements, then the elements of each group
\* a faulty variant of ChildElements: an element with min = 0 is left out
ChildElements_optional_skipped(t) ==
    LET occurs(e) == e.min > 0
    IN Filter(occurs, t.elements
                      \o Flatten([i \in 1..Len(t.groups) |-> t.groups[i].elements]))

\* a faulty variant of ChildElements: the members of the groups come first
ChildElements_groups_first(t) ==
    Flatten([i \in 1..Len(t.groups) |-> t.groups[i].elements]) \o t.elements

ChildElements(t) ==
    t.elements \o Flatten([i \in 1..Len(t.groups) |-> t.groups[i].elements])

\* get_content_list: get_name of every child element; the first error ends it
get_content_list(generator) ==
    LET ch == ChildElements(generator)
        bad == {i \in 1..Len(ch) : is_err(get_name(ch[i]))}
    IN IF bad # {} THEN get_name(ch[Min(bad)])
       ELSE Ok([i \in 1..Len(ch) |-> get_name(ch[i]).val])

\* a faulty variant of get_field_struct: the last element of the name
get_field_struct_last(generators, field) ==
    LET hit == {i \in 1..Len(generators) :
                  /\ is_some(generators[i].name)
                  /\ unwrap(generators[i].name) = field}
    IN IF hit = {} THEN None
       ELSE Some(generators[CHOOSE i \in hit : \A k \in hit : k <= i])

\* get_field_struct: the first top-level element whose name is the field
get_field_struct(generators, field) ==
    LET hit == {i \in 1..Len(generators) :
                  /\ is_some(generators[i].name)
                  /\ unwrap(generators[i].name) = field}
    IN IF hit = {} THEN None ELSE Some(generators[Min(hit)])

\* what one top-level element pushes to all_fields: its reference, then the
\* content list of each of its contents
fields_of(generator) ==
    (IF is_some(generator.reference) THEN <<unwrap(generator.reference)>> ELSE <<>>)
    \o Flatten([i \in 1..Len(generator.contents) |->
                  IF is_ok(get_content_list(generator.contents[i]))
                  THEN get_content_list(generator.contents[i]).val ELSE <<>>])

\* what one top-level element pushes to all_types: its non-empty type_info
types_of(generator) ==
    IF is_some(generator.type_info) /\ unwrap(generator.type_info) # ""
    THEN <<unwrap(generator.type_info)>> ELSE <<>>

\* the error of the first failing get_content_list, if any: the "?" at
\* get_content_list(content) returns it from find_root_element
content_error(generators) ==
    IF \E i \in 1..Len(generators) : \E j \in 1..Len(generators[i].contents) :
          is_err(get_content_list(generators[i].contents[j]))
    THEN Some(DataTypesFormatError("Element does not have a name or a reference"))
    ELSE None

\* a faulty variant of all_fields: the type_info strings are referenced names too
all_fields_with_types(generators) ==
    Flatten([i \in 1..Len(generators) |->
               fields_of(generators[i]) \o types_of(generators[i])])

all_fields(generators) ==
    Flatten([i \in 1..Len(generators) |-> fields_of(generators[i])])

all_types(generators) ==
    Flatten([i \in 1..Len(generators) |-> types_of(generators[i])])

\* the first top-level element found for each field of all_fields, in order
dependent_elements(generators) ==
    LET fields == all_fields(generators)
    IN Flatten([i \in 1..Len(fields) |-> get_field_struct(generators, fields[i])])

\* the top-level elements that dependent_elements does not contain
independent_elements(generators) ==
    LET dependent == dependent_elements(generators)
        independent(generator) == ~contains(dependent, generator)
    IN Filter(independent, generators)

\* a faulty variant of find_root_element: no check for an empty list
find_root_element_no_empty_check(generators) ==
    IF is_some(content_error(generators)) THEN unwrap(content_error(generators))
    ELSE IF independent_elements(generators) = <<>>
    THEN DataTypesFormatError("No independent elements found")
    ELSE IF Len(independent_elements(generators)) > 1
    THEN DataTypesFormatError("Multiple independent (root) elements found!")
    ELSE Ok(generators[Min({i \in 1..Len(generators) :
                contains(independent_elements(generators), generators[i])})])

\* a faulty variant of find_root_element: of several independent elements the first
\* is the root
find_root_element_first_root(generators) ==
    IF generators = <<>> THEN DataTypesFormatError("No elements found")
    ELSE IF is_some(content_error(generators)) THEN unwrap(content_error(generators))
    ELSE IF independent_elements(generators) = <<>>
    THEN DataTypesFormatError("No independent elements found")
    ELSE Ok(generators[Min({i \in 1..Len(generators) :
                contains(independent_elements(generators), generators[i])})])

\* a faulty variant of find_root_element: the messages are those of the tests
find_root_element_test_messages(generators) ==
    IF generators = <<>> THEN DataTypesFormatError("No elements found")
    ELSE IF is_some(content_error(generators)) THEN unwrap(content_error(generators))
    ELSE IF independent_elements(generators) = <<>>
    THEN DataTypesFormatError("No independent structs found")
    ELSE IF Len(independent_elements(generators)) > 1
    THEN DataTypesFormatError("Multiple independent structs found!")
    ELSE Ok(generators[Min({i \in 1..Len(generators) :
                contains(independent_elements(generators), generators[i])})])

\* find_root_element: the single independent top-level element, or an error
find_root_element(generators) ==
    IF generators = <<>> THEN DataTypesFormatError("No elements found")
    ELSE IF is_some(content_error(generators)) THEN unwrap(content_error(generators))
    ELSE IF independent_elements(generators) = <<>>
    THEN DataTypesFormatError("No independent elements found")
    ELSE IF Len(independent_elements(generators)) > 1
    THEN DataTypesFormatError("Multiple independent (root) elements found!")
    ELSE Ok(generators[Min({i \in 1..Len(generators) :
                contains(independent_elements(generators), generators[i])})])

\* ------------------------------------------------------------------------
\* The value generator (generate.rs)
\* ------------------------------------------------------------------------

PrimitiveBases ==
    {"boolean", "decimal", "double", "integer", "positiveInteger", "string"}

\* the values Faker can draw for a base, by representatives: both booleans,
\* one value of every other base
Sample(base) ==
    CASE base = "boolean" -> {"true", "false"}
      [] base = "decimal" -> {"0.5"}
      [] base = "double" -> {"0.25"}
      [] base = "integer" -> {"-7"}
      [] base = "positiveInteger" -> {"7"}
      [] OTHER -> {"text"}

\* the draws of one step: a value for every base
RandomSources ==
    { [base \in PrimitiveBases |->
         IF base = "boolean" THEN bit ELSE CHOOSE v \in Sample(base) : TRUE] :
      bit \in Sample("boolean") }

\* str::to_lowercase on the strings of the model
to_lowercase(str) ==
    CASE str = "String" -> "string"
      [] str = "STRING" -> "string"
      [] str = "Boolean" -> "boolean"
      [] str = "U" -> "u"
      [] str = "C" -> "c"
      [] str = "D" -> "d"
      [] str = "E" -> "e"
      [] str = "F" -> "f"
      [] str = "V" -> "v"
      [] str = "A" -> "a"
      [] str = "B" -> "b"
      [] str = "T" -> "t"
      [] str = "positiveInteger" -> "positiveinteger"
      [] OTHER -> str

\* generate_type: a value for the six primitive bases, None for any other name
generate_type(type_name, rnd) ==
    IF type_name \in PrimitiveBases THEN Some(rnd[type_name]) ELSE None

\* the one sample the fixed-seed generator draws from the pattern's language
regex_sample(pattern) == "sample(" \o pattern \o ")"

\* the facet values of the model that rand_regex::Regex::compile rejects
InvalidPatterns == {"("}

\* rand_regex::Regex::compile(pattern, 1) is Ok
regex_compiles(pattern) == pattern \notin InvalidPatterns

\* what generate returns in place of an Option when the thread panics
Panic == <<"panic", "called Result::unwrap() on an Err value">>

\* generate_regex: None unless the base is "string" in any letter case;
\* the unwrap() of a pattern that does not compile panics
generate_regex(type_name, pattern) ==
    IF to_lowercase(type_name) # "string" THEN None
    ELSE IF ~regex_compiles(pattern) THEN Panic
    ELSE Some(regex_sample(pattern))

\* generate: by the length of the token chain
generate(type_name, rnd) ==
    IF Len(type_name) = 1 THEN generate_type(type_name[1], rnd)
    ELSE IF Len(type_name) = 2 THEN generate_regex(type_name[1], type_name[2])
    ELSE None

\* ------------------------------------------------------------------------
\* XMLElement of the xml_builder crate, as the tree builder uses it
\* ------------------------------------------------------------------------

\* a faulty variant of add_text: the text "false" is not taken
add_text_no_false(node, text) ==
    IF node.text = None /\ node.children = <<>>
    THEN Ok([node EXCEPT !.text = IF text = "false" THEN None ELSE Some(text)])
    ELSE XMLBuilderError("Cannot insert text in a non-empty element")

\* XMLElement::add_text: only an element without content takes text
add_text(node, text) ==
    IF node.text = None /\ node.children = <<>>
    THEN Ok([node EXCEPT !.text = Some(text)])
    ELSE XMLBuilderError("Cannot insert text in a non-empty element")

\* XMLElement::add_child: an element with text takes no child
add_child(node, child) ==
    IF node.text = None
    THEN Ok([node EXCEPT !.children = Append(@, child)])
    ELSE XMLBuilderError("Cannot insert child inside an element with text")

\* XMLElement::add_attribute
add_attribute(node, name, value) ==
    [node EXCEPT !.attributes = Append(@, <<name, value>>)]

\* ------------------------------------------------------------------------
\* Attribute emission (attribute_generator.rs)
\* ------------------------------------------------------------------------

\* generate_attribute_from_type: the attribute's value from a simple type
generate_attribute_from_type(xml_element, generator, name, rnd) ==
    IF generator.elements # <<>>
    THEN DataTypesFormatError("Attributes can contain complex elements")
    ELSE IF generator.groups # <<>>
    THEN DataTypesFormatError("Attributes cannot include groups")
    ELSE IF generator.attributes # <<>>
    THEN DataTypesFormatError("Attributes cannot have their own attributes")
    ELSE IF generator.type_info = <<>>
    THEN DataTypeError("No type dat for attribute")
    ELSE IF generate(generator.type_info, rnd) = Panic
    THEN Panicked(Panic[2])
    ELSE IF is_some(generate(generator.type_info, rnd))
    THEN Ok(add_attribute(xml_element, name, unwrap(generate(generator.type_info, rnd))))
    ELSE DataTypeError("Data type not found")

RECURSIVE attribute_from_types(_, _, _, _, _)

\* the loop of AttributeGenerator::generate over the type table: every type
\* of the attribute's type name adds the attribute; the first error (or
\* panic) ends it
attribute_from_types(xml_element, types, self, rnd, i) ==
    IF i > Len(types) THEN Ok(xml_element)
    ELSE IF types[i].name # self.type_name
    THEN attribute_from_types(xml_element, types, self, rnd, i + 1)
    ELSE LET r == generate_attribute_from_type(xml_element, types[i], self.name, rnd)
         IN IF ~is_ok(r) THEN r
            ELSE attribute_from_types(r.val, types, self, rnd, i + 1)

\* a faulty variant of AttributeGenerator_generate: the type table is
\* consulted before the primitive generator
AttributeGenerator_generate_table_first(self, xml_element, types, rnd) ==
    IF self.name = ""
    THEN DataTypesFormatError("Attribute Name is empty")
    ELSE IF self.type_name = ""
    THEN DataTypesFormatError("Attribute type name is empty")
    ELSE IF self.attribute_type = "Prohibited"
    THEN Ok(xml_element)
    ELSE IF \E i \in 1..Len(types) : types[i].name = self.type_name
    THEN attribute_from_types(xml_element, types, self, rnd, 1)
    ELSE IF is_some(generate(<<self.type_name>>, rnd))
    THEN Ok(add_attribute(xml_element, self.name, unwrap(generate(<<self.type_name>>, rnd))))
    ELSE Ok(xml_element)

\* AttributeGenerator::generate
AttributeGenerator_generate(self, xml_element, types, rnd) ==
    IF self.name = ""
    THEN DataTypesFormatError("Attribute Name is empty")
    ELSE IF self.type_name = ""
    THEN DataTypesFormatError("Attribute type name is empty")
    ELSE IF self.attribute_type = "Prohibited"
    THEN Ok(xml_element)
    ELSE IF is_some(generate(<<self.type_name>>, rnd))
    THEN Ok(add_attribute(xml_element, self.name, unwrap(generate(<<self.type_name>>, rnd))))
    ELSE attribute_from_types(xml_element, types, self, rnd, 1)

RECURSIVE generate_attributes(_, _, _, _, _)

\* the attribute loop of TypeGenerator::generate: the first error ends it
generate_attributes(attributes, xml_element, types, rnd, i) ==
    IF i > Len(attributes) THEN Ok(xml_element)
    ELSE LET r == AttributeGenerator_generate(attributes[i], xml_element, types, rnd)
         IN IF ~is_ok(r) THEN r
            ELSE generate_attributes(attributes, r.val, types, rnd, i + 1)

\* ------------------------------------------------------------------------
\* The schemas explored: what get_element_type, get_group and
\* get_complex_type / get_simple_type can collect, over two element names
\* and one type name
\* ------------------------------------------------------------------------

\* get_element_type: name, ref (never with a name), type, the default
\* cardinality minOccurs = maxOccurs = 1, and the inline types
Element(n, r, t, c) ==
    [name |-> n, contents |-> c, type_info |-> t, reference |-> r,
     min |-> 1, max |-> Some(1)]

\* get_group: an anonymous compositor with default cardinality
Group(es) == [elements |-> es, min |-> 1, max |-> Some(1)]

\* get_complex_type: the compositors of a complex type become its groups,
\* its direct elements stay empty
ComplexType(n, es) ==
    [name |-> n, type_info |-> <<>>, elements |-> <<>>, groups |-> <<Group(es)>>,
     attributes |-> <<>>, min |-> 1, max |-> None]

\* get_simple_type: base name and facets become type_info
SimpleType(n, info) ==
    [name |-> n, type_info |-> info, elements |-> <<>>, groups |-> <<>>,
     attributes |-> <<>>, min |-> 1, max |-> None]

ElementNames == {"A", "B"}

\* elements declared inside a compositor
NestedElements ==
    { Element(Some("A"), None, Some("string"), <<>>),
      Element(Some("B"), None, Some("boolean"), <<>>),
      Element(Some("B"), None, Some("T"), <<>>),
      Element(None, Some("A"), None, <<>>),
      Element(None, Some("B"), None, <<>>),
      Element(None, None, Some("string"), <<>>) }

\* the members of one compositor
ChildSeqs ==
    { <<e>> : e \in NestedElements }
    \cup { << Element(None, Some("B"), None, <<>>),
              Element(Some("A"), None, Some("string"), <<>>) >> }

\* top-level elements
TopElements ==
    { Element(Some(n), None, t, <<>>) :
        n \in ElementNames, t \in {None, Some("string"), Some("T"), Some("A")} }
    \cup { Element(None, Some(n), None, <<>>) : n \in ElementNames }
    \cup { Element(Some(n), None, None, <<ComplexType("", es)>>) :
             n \in ElementNames, es \in ChildSeqs }
    \cup { [name |-> Some("A"), reference |-> None, type_info |-> None,
             contents |-> <<ComplexType("", <<Element(None, Some("A"), None, <<>>)>>)>>,
             min |-> 0, max |-> None] }

\* top-level types
NamedTypes ==
    { ComplexType("T", <<Element(None, Some("A"), None, <<>>)>>),
      ComplexType("T", <<Element(Some("B"), None, Some("T"), <<>>)>>),
      ComplexType("T", <<Element(Some("A"), None, Some("string"), <<>>)>>),
      SimpleType("T", <<"integer">>) }

ElementLists == UNION { [1..n -> TopElements] : n \in 0..MaxElements }

TypeTables == {<<>>} \cup { <<t>> : t \in NamedTypes }

\* ------------------------------------------------------------------------
\* The schemas explored for typed content: elements of a named type, over
\* type tables with attributes, facet chains, cardinalities and
\* contradictory references
\* ------------------------------------------------------------------------

\* get_element_type with minOccurs and maxOccurs given
ElementOccurs(n, r, t, c, lo, hi) ==
    [name |-> n, contents |-> c, type_info |-> t, reference |-> r,
     min |-> lo, max |-> hi]

\* get_attribute: name ("" when absent), use and type name ("" when absent)
Attribute(n, use, t) == [name |-> n, attribute_type |-> use, type_name |-> t]

\* get_complex_type of a complex type with attributes only
AttributeType(n, attrs) ==
    [name |-> n, type_info |-> <<>>, elements |-> <<>>, groups |-> <<>>,
     attributes |-> attrs, min |-> 1, max |-> None]

\* get_complex_type of a complex type with one compositor and attributes
ComplexTypeWith(n, es, attrs) ==
    [name |-> n, type_info |-> <<>>, elements |-> <<>>, groups |-> <<Group(es)>>,
     attributes |-> attrs, min |-> 1, max |-> None]

\* top-level elements of a named type
TypedElements ==
    { Element(Some("A"), None, Some("T"), <<>>),
      Element(Some("A"), None, Some("boolean"), <<>>),
      Element(Some("B"), None, Some("string"), <<>>),
      Element(None, None, Some("string"), <<>>) }

TypedLists == UNION { [1..n -> TypedElements] : n \in 1..MaxElements }

\* the token chains get_simple_type collects: the base, then the facets
SimpleChains ==
    { <<"string", "[A-Z]{3}">>, <<"STRING", "[A-Z]{3}">>, <<"integer", "5">>,
      <<"string", "1", "5">>, <<"string", "(">>, <<"date">>, <<"Boolean">>,
      <<"boolean">> }

\* type tables whose type T carries attributes
AttributeTables ==
    { <<AttributeType("T", <<Attribute("a", "Required", "boolean")>>)>>,
      <<AttributeType("T", <<Attribute("a", "Required", "U")>>)>>,
      <<AttributeType("T", <<Attribute("a", "Prohibited", "string")>>)>>,
      <<AttributeType("T", <<Attribute("a", "Prohibited", "")>>)>>,
      <<AttributeType("T", <<Attribute("", "Optional", "string")>>)>>,
      <<AttributeType("T", <<Attribute("a", "Required", "string"),
                             Attribute("b", "Optional", "integer")>>)>>,
      <<ComplexTypeWith("T", <<Element(Some("B"), None, Some("string"), <<>>)>>,
                        <<Attribute("a", "Required", "string")>>)>>,
      <<AttributeType("T", <<Attribute("a", "Optional", "U")>>),
        SimpleType("U", <<"string", "[A-Z]{3}">>)>>,
      <<AttributeType("T", <<Attribute("a", "Required", "boolean")>>),
        SimpleType("boolean", <<"integer">>)>>,
      <<AttributeType("T", <<Attribute("a", "Required", "U")>>),
        SimpleType("U", <<"date">>)>>,
      <<AttributeType("T", <<Attribute("a", "Optional", "U")>>),
        SimpleType("U", <<"string", "(">>)>>,
      <<AttributeType("T", <<Attribute("a", "Optional", "U")>>),
        ComplexType("U", <<Element(Some("B"), None, Some("string"), <<>>)>>)>>,
      <<AttributeType("T", <<Attribute("a", "Required", "U")>>),
        SimpleType("U", <<"integer">>), SimpleType("U", <<"integer">>)>>,
      <<AttributeType("T", <<Attribute("a", "Required", "U")>>),
        AttributeType("U", <<>>)>>,
      <<AttributeType("T", <<Attribute("a", "Optional", "U")>>),
        AttributeType("U", <<Attribute("b", "Required", "string")>>)>> }

\* type tables whose type T is a simple type
ChainTables == { <<SimpleType("T", chain)>> : chain \in SimpleChains }

\* type tables whose type T has a child with minOccurs and maxOccurs
OccursTables ==
    { <<ComplexType("T", <<ElementOccurs(Some("B"), None, Some("string"), <<>>,
                                         lo, hi)>>)>> :
        lo \in 0..2, hi \in {Some(2), None} }
    \cup { <<ComplexType("T", <<ElementOccurs(Some("B"), None, Some("string"),
                                              <<>>, 0, Some(0))>>)>> }
    \cup { <<[name |-> "T", type_info |-> <<>>, elements |-> <<>>,
              groups |-> <<[elements |-> <<ElementOccurs(Some("B"), None,
                                              Some("string"), <<>>, lo, hi)>>,
                            min |-> lo, max |-> hi]>>,
              attributes |-> <<>>, min |-> lo, max |-> hi]>> :
             lo \in {0, 2}, hi \in {Some(0), Some(3)} }

\* type tables whose type T has a child with a reference and a type, or a
\* reference and inline content
ContradictionTables ==
    { <<ComplexType("T", <<Element(None, Some("B"), Some("string"), <<>>)>>)>>,
      <<ComplexType("T", <<Element(None, Some("B"), None,
            <<ComplexType("", <<Element(Some("A"), None, Some("string"), <<>>)>>)>>)>>)>>,
      <<ComplexType("T", <<Element(None, Some("B"), None, <<>>)>>)>> }

\* type tables whose type T has a child of a type no table entry names,
\* after a child that can be built
SiblingTables ==
    { <<ComplexType("T", <<Element(Some("B"), None, Some("string"), <<>>),
                           Element(Some("C"), None, Some("V"), <<>>)>>)>>,
      <<ComplexTypeWith("T", <<Element(Some("B"), None, Some("string"), <<>>),
                               Element(Some("C"), None, Some("V"), <<>>),
                               Element(Some("D"), None, Some("string"), <<>>)>>,
                        <<Attribute("a", "Required", "string")>>)>> }

TypedTables ==
    AttributeTables \cup ChainTables \cup OccursTables \cup ContradictionTables
    \cup SiblingTables

\* ------------------------------------------------------------------------
\* The parsed schema (the models of the xsd_parser crate the collectors read)
\* ------------------------------------------------------------------------

\* QName: a prefix and a local name
QName(prefix, local) == <<prefix, local>>

\* MaxOccurs::Unbounded and MaxOccurs::Bounded(x)
Unbounded == [bounded |-> FALSE, val |-> 0]

Bounded(x) == [bounded |-> TRUE, val |-> x]

\* one item of a content list: the variant of the enum and its payload
Content(kind, item) == [kind |-> kind, item |-> item]

\* FacetType: a facet with its value attribute
FacetType(value) == [fixed |-> FALSE, annotation |-> None, value |-> value]

\* Restriction: the base attribute and the content list
Restriction(base, content) == [base |-> base, content |-> content]

\* SimpleBaseType: a simpleType node
SimpleBaseType(name, content) ==
    [name |-> name, final_ |-> None, content |-> content]

\* AttributeType: an attribute node
AttributeType_new(name, type_, use_) ==
    [name |-> name, ref_ |-> None, type_ |-> type_, use_ |-> use_,
     default |-> None, fixed |-> None, form |-> None,
     target_namespace |-> None, inheritable |-> None, annotation |-> None,
     simple_type |-> None]

\* ElementType: an element node
ElementType(name, ref_, type_, content) ==
    [name |-> name, ref_ |-> ref_, type_ |-> type_,
     substitution_group |-> None, min_occurs |-> 1, max_occurs |-> Bounded(1),
     default |-> None, fixed |-> None, nillable |-> None, abstract_ |-> FALSE,
     final_ |-> None, block |-> None, form |-> None,
     target_namespace |-> None, content |-> content]

\* GroupType: a compositor node (sequence, all, choice or group)
GroupType(content) ==
    [name |-> None, ref_ |-> None, min_occurs |-> 1, max_occurs |-> Bounded(1),
     content |-> content]

\* ComplexBaseType: a complexType node
ComplexBaseType(name, content) ==
    [name |-> name, mixed |-> None, abstract_ |-> FALSE, final_ |-> None,
     block |-> None, default_attributes_apply |-> TRUE, content |-> content]

\* ------------------------------------------------------------------------
\* The collectors (fetch_types.rs, fetch_elements.rs).  A collector returns
\* Ok(value), or Panicked(message) where the code runs into unimplemented!
\* or panic!
\* ------------------------------------------------------------------------

\* the message of unimplemented!(what)
unimplemented(what) == Panicked("not implemented: " \o what)

\* a loop that pushes the value of every item: the first panic ends it
Collected(rs) ==
    LET bad == {i \in 1..Len(rs) : rs[i].tag = "Panic"}
    IN IF bad = {} THEN Ok([i \in 1..Len(rs) |-> rs[i].val]) ELSE rs[Min(bad)]

\* the values of the items that are Some, in order
Somes(options) ==
    Flatten([i \in 1..Len(options) |-> options[i]])

\* Some(value) of a collector's value: a panic passes through
some_of(r) == IF is_ok(r) THEN Ok(Some(r.val)) ELSE r

\* the values that are Some of a loop's values: a panic passes through
somes_of(r) == IF is_ok(r) THEN Ok(Somes(r.val)) ELSE r

get_qname(qname) == qname[2]

get_facet_type(facet_type) ==
    IF facet_type.fixed THEN unimplemented("Fixed facet type")
    ELSE IF is_some(facet_type.annotation) THEN unimplemented("Annotation")
    ELSE Ok(facet_type.value)

get_facet(facet) ==
    IF facet.kind = "Assertion" THEN unimplemented("Assertion")
    ELSE get_facet_type(facet.item)

get_restriction_content(content) ==
    CASE content.kind = "Annotation" -> unimplemented("Annotation")
      [] content.kind = "SimpleType" -> unimplemented("SimpleType")
      [] content.kind = "Facet" -> get_facet(content.item)

\* RestrictionInfo: the local name of the base ("" without a base) and the
\* values of the facets
restriction_info(restriction, facets) ==
    LET name == IF is_some(restriction.base)
                THEN get_qname(unwrap(restriction.base)) ELSE ""
    IN IF is_ok(facets) THEN Ok([name |-> name, facets |-> facets.val])
       ELSE facets

get_restriction(restriction) ==
    restriction_info(restriction,
                     Collected([i \in 1..Len(restriction.content) |->
                                  get_restriction_content(restriction.content[i])]))

get_content_restriction(content) ==
    CASE content.kind = "Annotation" -> unimplemented("Annotation")
      [] content.kind = "Restriction" -> get_restriction(content.item)
      [] content.kind = "List" -> unimplemented("List")
      [] content.kind = "Union" -> unimplemented("Union")

\* a faulty variant of restriction_tokens: the facets come before the base
restriction_tokens_facets_first(restriction) ==
    restriction.facets \o <<restriction.name>>

\* get_simple_type: what one restriction adds to type_info
restriction_tokens(restriction) ==
    <<restriction.name>> \o restriction.facets

\* get_simple_type after its loop over the content of the node
simple_type_info(simple, restrictions) ==
    LET name == IF is_some(simple.name) THEN unwrap(simple.name) ELSE ""
    IN IF name = "" THEN unimplemented("Empty type")
       ELSE IF is_some(simple.final_) THEN unimplemented("Final")
       ELSE IF ~is_ok(restrictions) THEN restrictions
       ELSE IF restrictions.val = <<>>
       THEN Ok([TypeGenerator_new EXCEPT !.name = name, !.type_info = <<"string">>])
       ELSE Ok([TypeGenerator_new EXCEPT
                  !.name = name,
                  !.type_info = Flatten([i \in 1..Len(restrictions.val) |->
                                   restriction_tokens(restrictions.val[i])])])

get_simple_type(simple) ==
    simple_type_info(simple,
                     Collected([i \in 1..Len(simple.content) |->
                                  get_content_restriction(simple.content[i])]))

\* MaxOccurs to Option: Unbounded is None
max_of(max_occurs) ==
    IF max_occurs.bounded THEN Some(max_occurs.val) ELSE None

\* get_attribute: the name ("" when absent), the use and the local name of
\* the type ("" when absent)
get_attribute(attribute) ==
    LET attribute_info ==
          [AttributeGenerator_new EXCEPT
             !.name = IF is_some(attribute.name) THEN unwrap(attribute.name) ELSE "",
             !.type_name = IF is_some(attribute.type_)
                           THEN get_qname(unwrap(attribute.type_)) ELSE "",
             !.attribute_type = attribute.use_]
    IN IF is_some(attribute.default) THEN unimplemented("Default attribute")
       ELSE IF is_some(attribute.fixed) THEN unimplemented("Fixed attribute")
       ELSE IF is_some(attribute.form) THEN unimplemented("Form attribute")
       ELSE IF is_some(attribute.target_namespace)
       THEN unimplemented("Target namespace attribute")
       ELSE IF is_some(attribute.inheritable)
       THEN unimplemented("Inheritable attribute")
       ELSE IF is_some(attribute.annotation) THEN unimplemented("Annotation")
       ELSE IF is_some(attribute.simple_type)
       THEN unimplemented("Simple type attribute")
       ELSE Ok(attribute_info)

get_complex_attributes(content) ==
    CASE content.kind \in {"Annotation", "SimpleContent", "ComplexContent",
                           "OpenContent", "AttributeGroup", "AnyAttribute",
                           "Assert"} -> unimplemented(content.kind)
      [] content.kind \in {"Group", "All", "Choice", "Sequence"} -> Ok(None)
      [] content.kind = "Attribute" -> some_of(get_attribute(content.item))

RECURSIVE get_element_type(_)

get_group_content(content) ==
    CASE content.kind = "Annotation" -> unimplemented("Annotation")
      [] content.kind = "Element" -> get_element_type(content.item)
      [] content.kind \in {"Group", "All", "Choice", "Sequence"} ->
           unimplemented("Embedded groups")
      [] content.kind = "Any" -> unimplemented("Any")

\* get_group after its loop over the content of the node
group_info(group, members) ==
    IF is_some(group.name) THEN unimplemented("Named groups")
    ELSE IF is_some(group.ref_) THEN unimplemented("Group references")
    ELSE IF ~is_ok(members) THEN members
    ELSE Ok([GroupInfo_new EXCEPT !.min = group.min_occurs,
                                  !.max = max_of(group.max_occurs),
                                  !.elements = members.val])

get_group(group) ==
    group_info(group, Collected([i \in 1..Len(group.content) |->
                                   get_group_content(group.content[i])]))

get_complex_group(content) ==
    CASE content.kind \in {"Annotation", "SimpleContent", "ComplexContent",
                           "OpenContent", "AttributeGroup", "AnyAttribute",
                           "Assert"} -> unimplemented(content.kind)
      [] content.kind \in {"Group", "All", "Choice", "Sequence"} ->
           some_of(get_group(content.item))
      [] content.kind = "Attribute" -> Ok(None)

\* the group and the attribute of one turn: the first panic ends it
group_and_attribute(group, attribute) ==
    IF ~is_ok(group) THEN group
    ELSE IF ~is_ok(attribute) THEN attribute
    ELSE Ok([group |-> group.val, attribute |-> attribute.val])

\* get_complex_type, one turn of its loop: the group, then the attribute
complex_content(content) ==
    group_and_attribute(get_complex_group(content),
                        get_complex_attributes(content))

\* get_complex_type: the first attribute of the node it does not implement
unsupported_complex_type(complex) ==
    IF is_some(complex.mixed) THEN Some("Mixed types")
    ELSE IF complex.abstract_ THEN Some("Abstract types")
    ELSE IF is_some(complex.final_) THEN Some("Final types")
    ELSE IF is_some(complex.block) THEN Some("Block types")
    ELSE IF ~complex.default_attributes_apply THEN Some("Non-default attributes")
    ELSE None

\* get_complex_type after its loop over the content of the node
complex_type_info(complex, contents) ==
    LET name == IF is_some(complex.name) THEN unwrap(complex.name) ELSE ""
    IN IF is_some(unsupported_complex_type(complex))
       THEN unimplemented(unwrap(unsupported_complex_type(complex)))
       ELSE IF ~is_ok(contents) THEN contents
       ELSE Ok([TypeGenerator_new EXCEPT
                  !.name = name,
                  !.groups = Somes([i \in 1..Len(contents.val) |->
                                      contents.val[i].group]),
                  !.attributes = Somes([i \in 1..Len(contents.val) |->
                                          contents.val[i].attribute])])

get_complex_type(complex) ==
    complex_type_info(complex,
                      Collected([i \in 1..Len(complex.content) |->
                                   complex_content(complex.content[i])]))

get_element_content(content) ==
    CASE content.kind \in {"Annotation", "Alternative", "Unique", "Key",
                           "Keyref"} -> unimplemented(content.kind)
      [] content.kind = "SimpleType" -> get_simple_type(content.item)
      [] content.kind = "ComplexType" -> get_complex_type(content.item)

\* get_element_type: the first attribute of the node, after the
\* substitution group, it does not implement
unsupported_element(element) ==
    IF is_some(element.default) THEN Some("Default Element")
    ELSE IF is_some(element.fixed) THEN Some("Fixed elements")
    ELSE IF is_some(element.nillable) THEN Some("Nillable elements")
    ELSE IF element.abstract_ THEN Some("Abstract elements")
    ELSE IF is_some(element.final_) THEN Some("Final elements")
    ELSE IF is_some(element.block) THEN Some("Block elements")
    ELSE IF is_some(element.form) THEN Some("Form elements")
    ELSE IF is_some(element.target_namespace) THEN Some("Namespace elements")
    ELSE None

\* get_element_type after its loop over the content of the node
element_info(element, contents) ==
    IF is_some(element.ref_) /\ is_some(element.name)
    THEN Panicked("Name already defined.")
    ELSE IF is_some(element.substitution_group)
    THEN unimplemented("Element Substitution Groups")
    ELSE IF is_some(unsupported_element(element))
    THEN unimplemented(unwrap(unsupported_element(element)))
    ELSE IF ~is_ok(contents) THEN contents
    ELSE Ok([ElementGenerator_new EXCEPT
               !.name = element.name,
               !.reference = IF is_some(element.ref_)
                             THEN Some(get_qname(unwrap(element.ref_)))
                             ELSE None,
               !.type_info = IF is_some(element.type_)
                             THEN Some(get_qname(unwrap(element.type_)))
                             ELSE None,
               !.min = element.min_occurs,
               !.max = max_of(element.max_occurs),
               !.contents = contents.val])

get_element_type(element) ==
    element_info(element, Collected([i \in 1..Len(element.content) |->
                                       get_element_content(element.content[i])]))

\* the variants of SchemaContent neither collector implements
UnsupportedSchemaContent ==
    {"Include", "Import", "Redefine", "Override", "Annotation",
     "DefaultOpenContent", "AttributeGroup", "Notation"}

\* fetch_type: Ok(Some(type)), Ok(None) for an element, or a panic
fetch_type(content) ==
    CASE content.kind \in UnsupportedSchemaContent -> unimplemented(content.kind)
      [] content.kind = "Group" -> unimplemented("Top-level group not supported")
      [] content.kind = "Attribute" -> unimplemented("Attribute")
      [] content.kind = "Element" -> Ok(None)
      [] content.kind = "SimpleType" -> some_of(get_simple_type(content.item))
      [] content.kind = "ComplexType" -> some_of(get_complex_type(content.item))

\* fetch_element: Ok(Some(element)), Ok(None) for a type, or a panic
fetch_element(content) ==
    CASE content.kind \in UnsupportedSchemaContent -> unimplemented(content.kind)
      [] content.kind = "Group" -> unimplemented("Top-level group not supported")
      [] content.kind = "Attribute" -> unimplemented("Attribute")
      [] content.kind \in {"SimpleType", "ComplexType"} -> Ok(None)
      [] content.kind = "Element" -> some_of(get_element_type(content.item))

\* fetch_types: the types of the schema content, in order
fetch_types(schema) ==
    somes_of(Collected([i \in 1..Len(schema) |-> fetch_type(schema[i])]))

\* fetch_elements: the top-level elements of the schema content, in order
fetch_elements(schema) ==
    somes_of(Collected([i \in 1..Len(schema) |-> fetch_element(schema[i])]))

\* a faulty variant of generate_schema: the message of the parser is replaced
generate_schema_own_message(string) ==
    IF is_some(string.error)
    THEN XSDParserError("Unable to parse schema")
    ELSE Ok(string.content)

\* generate_schema: the text is given by what the upstream parser makes of
\* it, its error or the content of the schema; the error's text is wrapped
generate_schema(string) ==
    IF is_some(string.error)
    THEN XSDParserError(unwrap(string.error))
    ELSE Ok(string.content)

\* ------------------------------------------------------------------------
\* The schema texts generate_xml is explored for
\* ------------------------------------------------------------------------

\* a facet of a restriction
Facet(kind, value) == Content("Facet", Content(kind, FacetType(value)))

\* a simpleType node with one restriction
RestrictedType(name, base, facets) ==
    SimpleBaseType(name,
        <<Content("Restriction", Restriction(Some(QName("xs", base)), facets))>>)

\* an element node of a named type
TypedElement(name, type_) ==
    ElementType(Some(name), None, Some(QName("xs", type_)), <<>>)

\* a sequence compositor of a complexType node
Sequence(members) ==
    Content("Sequence",
            GroupType([i \in 1..Len(members) |-> Content("Element", members[i])]))

\* an attribute of a complexType node
AttributeNode(name, type_, use_) ==
    Content("Attribute",
            AttributeType_new(Some(name), Some(QName("xs", type_)), use_))

\* simpleType nodes the collectors implement
SimpleNodes ==
    { SimpleBaseType(Some("U"), <<>>),
      RestrictedType(Some("U"), "string", <<>>),
      RestrictedType(Some("U"), "boolean", <<>>),
      RestrictedType(Some("U"), "string", <<Facet("Pattern", "[A-Z]{3}")>>),
      RestrictedType(Some("U"), "integer",
                     <<Facet("MinInclusive", "1"), Facet("MaxInclusive", "5")>>),
      RestrictedType(Some("U"), "string",
                     <<Facet("MaxLength", "5"), Facet("MinLength", "1")>>) }

\* simpleType nodes with a construct the collectors do not implement
UnsupportedSimpleNodes ==
    { [RestrictedType(Some("U"), "string", <<>>) EXCEPT !.final_ = Some("#all")],
      RestrictedType(Some("U"), "string",
          <<Content("Facet", Content("Length",
                [FacetType("3") EXCEPT !.fixed = TRUE]))>>),
      RestrictedType(Some("U"), "string",
          <<Facet("MinLength", "1"),
            Content("Facet", Content("Pattern",
                [FacetType("[A-Z]{3}") EXCEPT !.annotation = Some("note")]))>>),
      RestrictedType(Some("U"), "string",
          <<Content("Facet", Content("Assertion", FacetType("")))>>),
      RestrictedType(Some("U"), "string",
          <<Content("Annotation", Content("", FacetType("")))>>),
      SimpleBaseType(Some("U"), <<Content("List", Restriction(None, <<>>))>>),
      SimpleBaseType(Some("U"), <<Content("Union", Restriction(None, <<>>))>>),
      SimpleBaseType(Some("U"), <<Content("Annotation", Restriction(None, <<>>))>>) }

\* a simpleType node without a name
AnonymousSimpleNodes ==
    { RestrictedType(None, "string", <<Facet("Pattern", "[A-Z]{3}")>>),
      RestrictedType(None, "integer", <<>>) }

\* complexType nodes the collectors implement
ComplexNodes ==
    { ComplexBaseType(Some("T"), <<Sequence(<<TypedElement("B", "string")>>)>>),
      ComplexBaseType(Some("T"),
          <<Sequence(<<TypedElement("B", "string"), TypedElement("C", "U")>>),
            AttributeNode("a", "string", "Required"),
            AttributeNode("b", "U", "Optional")>>),
      ComplexBaseType(Some("T"),
          <<Content("Choice",
                [GroupType(<<Content("Element",
                     [TypedElement("B", "boolean") EXCEPT
                        !.min_occurs = 0, !.max_occurs = Unbounded])>>)
                 EXCEPT !.min_occurs = 2, !.max_occurs = Bounded(3)])>>),
      ComplexBaseType(Some("T"),
          <<Sequence(<<ElementType(None, Some(QName("", "A")), None, <<>>)>>)>>),
      ComplexBaseType(Some("T"), <<AttributeNode("a", "U", "Prohibited")>>) }

\* complexType nodes with a construct the collectors do not implement
UnsupportedComplexNodes ==
    LET plain == ComplexBaseType(Some("T"),
                     <<Sequence(<<TypedElement("B", "string")>>)>>)
        group == GroupType(<<Content("Element", TypedElement("B", "string"))>>)
    IN { [plain EXCEPT !.mixed = Some(TRUE)],
         [plain EXCEPT !.abstract_ = TRUE],
         [plain EXCEPT !.final_ = Some("#all")],
         [plain EXCEPT !.block = Some("extension")],
         [plain EXCEPT !.default_attributes_apply = FALSE],
         ComplexBaseType(Some("T"),
             <<Content("Group", [group EXCEPT !.ref_ = Some(QName("", "G"))])>>),
         ComplexBaseType(Some("T"),
             <<Content("Sequence", [group EXCEPT !.name = Some("G")])>>),
         ComplexBaseType(Some("T"),
             <<Content("Sequence",
                   GroupType(<<Content("Element", TypedElement("B", "string")),
                               Content("Choice", group)>>))>>),
         ComplexBaseType(Some("T"),
             <<Content("Sequence", GroupType(<<Content("Any", group)>>))>>),
         ComplexBaseType(Some("T"), <<Content("SimpleContent", group)>>),
         ComplexBaseType(Some("T"),
             <<Sequence(<<TypedElement("B", "string")>>),
               Content("AttributeGroup", group)>>),
         ComplexBaseType(Some("T"),
             <<Content("Attribute",
                   [AttributeType_new(Some("a"), Some(QName("xs", "string")),
                                      "Optional")
                    EXCEPT !.default = Some("x")])>>),
         ComplexBaseType(Some("T"),
             <<Sequence(<<[TypedElement("B", "string") EXCEPT
                             !.nillable = Some(TRUE)]>>)>>) }

\* top-level element nodes the collectors implement
ElementNodes ==
    { TypedElement("A", "T"),
      TypedElement("A", "U"),
      TypedElement("A", "string"),
      ElementType(Some("A"), None, None,
          <<Content("ComplexType",
                ComplexBaseType(None,
                    <<Sequence(<<TypedElement("B", "U"),
                                 TypedElement("C", "string")>>),
                      AttributeNode("a", "U", "Optional")>>))>>) }

\* top-level element nodes with a construct the collectors do not implement
UnsupportedElementNodes ==
    { [TypedElement("A", "T") EXCEPT !.substitution_group = Some(QName("", "S"))],
      [TypedElement("A", "T") EXCEPT !.abstract_ = TRUE],
      [TypedElement("A", "T") EXCEPT !.fixed = Some("x")],
      ElementType(Some("A"), Some(QName("", "B")), None, <<>>),
      ElementType(Some("A"), None, None,
          <<Content("Annotation", ComplexBaseType(None, <<>>))>>),
      ElementType(Some("A"), None, None,
          <<Content("ComplexType",
                [ComplexBaseType(None, <<Sequence(<<TypedElement("B", "string")>>)>>)
                 EXCEPT !.mixed = Some(TRUE)])>>) }

\* top-level element nodes with an inline simpleType without a name
InlineSimpleElementNodes ==
    { ElementType(Some("A"), None, None, <<Content("SimpleType", simple)>>) :
        simple \in AnonymousSimpleNodes }

\* the items of a schema the collectors implement
SupportedItems ==
    { Content("Element", e) : e \in ElementNodes }
    \cup { Content("SimpleType", s) : s \in SimpleNodes }
    \cup { Content("ComplexType", c) : c \in ComplexNodes }

\* the items of a schema with a construct the collectors do not implement
UnsupportedItems ==
    { Content("Element", e) : e \in UnsupportedElementNodes }
    \cup { Content("SimpleType", s) : s \in UnsupportedSimpleNodes }
    \cup { Content("ComplexType", c) : c \in UnsupportedComplexNodes }
    \cup { Content(kind, ComplexBaseType(None, <<>>)) :
             kind \in {"Annotation", "Import", "Group", "Attribute"} }

\* the content lists of the schemas: an element, then at most two types, or
\* one item the collectors do not implement next to an element, or an element
\* with an inline simpleType, or a simpleType without a name at the top level
SchemaContents ==
    { <<>> }
    \cup { <<Content("Element", e)>> : e \in ElementNodes }
    \cup { <<Content("Element", e), Content("ComplexType", c)>> :
             e \in ElementNodes, c \in ComplexNodes }
    \cup { <<Content("Element", e), Content("SimpleType", s)>> :
             e \in ElementNodes, s \in SimpleNodes }
    \cup { <<Content("Element", e), Content("ComplexType", c),
             Content("SimpleType", s)>> :
             e \in {TypedElement("A", "T")}, c \in ComplexNodes, s \in SimpleNodes }
    \cup { <<Content("Element", TypedElement("A", "string")), item>> :
             item \in UnsupportedItems }
    \cup { <<item, Content("Element", TypedElement("A", "string"))>> :
             item \in UnsupportedItems }
    \cup { <<Content("Element", e)>> : e \in InlineSimpleElementNodes }
    \cup { <<Content("Element", TypedElement("A", "string")),
             Content("SimpleType", s)>> : s \in AnonymousSimpleNodes }

\* the messages of the upstream parser that are explored: the message for a
\* text that ends after the XML declaration, and one more
ParserMessages ==
    { "XML Error: Unexpected event: Eof!; position=0",
      "XML Error: ill-formed document" }

\* the schema texts: each is what the upstream parser makes of it, an error
\* message or the content of the schema
XsdStrings ==
    { [error |-> Some(m), content |-> <<>>] : m \in ParserMessages }
    \cup { [error |-> None, content |-> c] : c \in SchemaContents }

\* where no schema text is followed
NoText == [error |-> None, content |-> <<>>]

\* ------------------------------------------------------------------------
\* generate_xml as a state machine
\* ------------------------------------------------------------------------

VARIABLES
    xsd_string,   \* the schema text generate_xml is called with
    schemas,      \* the content of the parsed schema (generate_schema)
    previous,     \* the result of an earlier run of the tree builder, if any
    elements,     \* the collected top-level elements (fetch_elements)
    data_types,   \* the collected top-level types (fetch_types)
    pc,           \* the position in generate_xml
    root,         \* the result of find_root_element
    stack,        \* the recursion stack of the tree builder
    ret,          \* the value the last finished call returned
    result        \* the result of generate_xml

vars == <<xsd_string, schemas, previous, elements, data_types, pc, root, stack, ret, result>>

NoResult == [tag |-> "None", val |-> NoNode, kind |-> "", msg |-> ""]

Init ==
    /\ \/ /\ elements \in ElementLists
          /\ data_types \in TypeTables
       \/ /\ elements \in TypedLists
          /\ data_types \in TypedTables
    /\ xsd_string = NoText
    /\ schemas = <<>>
    /\ previous = None
    /\ pc = "elements"
    /\ root = NoResult
    /\ stack = <<>>
    /\ ret = NoResult
    /\ result = NoResult

\* generate_xml, after collection: an empty element list is an error
CheckElements ==
    /\ pc = "elements"
    /\ IF Len(elements) = 0
       THEN /\ result' = DataTypesFormatError("No elements found")
            /\ pc' = "done"
       ELSE /\ pc' = "find_root"
            /\ UNCHANGED result
    /\ UNCHANGED <<xsd_string, schemas, previous, elements, data_types, root, stack, ret>>

\* generate_xml: let root_element = find_root_element(&elements)?
FindRoot ==
    /\ pc = "find_root"
    /\ root' = find_root_element(elements)
    /\ IF is_err(root')
       THEN /\ result' = root'
            /\ pc' = "done"
       ELSE /\ pc' = "build"
            /\ UNCHANGED result
    /\ UNCHANGED <<xsd_string, schemas, previous, elements, data_types, stack, ret>>

\* ------------------------------------------------------------------------
\* The tree builder: one frame of the stack per call of
\* ElementGenerator::generate or TypeGenerator::generate
\* ------------------------------------------------------------------------

ElementFrame(e) ==
    [kind |-> "element", elem |-> e, type |-> TypeGenerator_new,
     node |-> NoNode, stage |-> "call", idx |-> 0]

TypeFrame(t, node) ==
    [kind |-> "type", elem |-> ElementGenerator_new, type |-> t,
     node |-> node, stage |-> "call", idx |-> 0]

Top == stack[Len(stack)]

Pop == SubSeq(stack, 1, Len(stack) - 1)

\* the frame on top of the stack replaced by f, and g pushed onto it
Call(f, g) == [stack EXCEPT ![Len(stack)] = f] \o <<g>>

\* a faulty variant of reference_scan: the comparison of the names is inverted
reference_scan_inverted(reference, elems) ==
    LET stop == {i \in 1..Len(elems) :
                   \/ is_err(get_name(elems[i]))
                   \/ get_name(elems[i]).val # reference}
    IN IF stop = {} THEN XMLBuilderError("Reference not found")
       ELSE IF is_err(get_name(elems[Min(stop)])) THEN get_name(elems[Min(stop)])
       ELSE Ok(elems[Min(stop)])

\* generate_reference: the first top-level element whose get_name is the
\* reference; a get_name error met before it ends the scan
reference_scan(reference, elems) ==
    LET stop == {i \in 1..Len(elems) :
                   \/ is_err(get_name(elems[i]))
                   \/ get_name(elems[i]).val = reference}
    IN IF stop = {} THEN XMLBuilderError("Reference not found")
       ELSE IF is_err(get_name(elems[Min(stop)])) THEN get_name(elems[Min(stop)])
       ELSE Ok(elems[Min(stop)])

\* a faulty variant of type_not_found: the error is an XMLBuilderError
type_not_found_builder_error(type_name) ==
    XMLBuilderError("Cannot find data type: " \o type_name)

\* generate_type_output: no type of the table has the name
type_not_found(type_name) ==
    DataTypeError("Cannot find data type: " \o type_name)

\* generate_type_output: the first type of the table with the name
type_lookup(type_name, types) ==
    LET hit == {i \in 1..Len(types) : types[i].name = type_name}
    IN IF hit = {} THEN None ELSE Some(types[Min(hit)])

\* a faulty variant of reference_conflict: the contents are not looked at
reference_conflict_type_only(self) ==
    IF is_some(self.type_info)
    THEN Some("Element is a reference and a type")
    ELSE None

\* ElementGenerator::generate: what an element with a reference must not have
reference_conflict(self) ==
    IF is_some(self.type_info)
    THEN Some("Element is a reference and a type")
    ELSE IF self.contents # <<>>
    THEN Some("Element references another element an contains content")
    ELSE None

\* generate_output: generator.generate(data_types, elements)
GenerateOutput ==
    /\ pc = "build"
    /\ stack' = <<ElementFrame(root.val)>>
    /\ pc' = "building"
    /\ UNCHANGED <<xsd_string, schemas, previous, elements, data_types, root, ret, result>>

\* ElementGenerator::generate, up to its first call or its return
ElementGenerate ==
    /\ pc = "building"
    /\ stack # <<>>
    /\ ret.tag = "None"
    /\ Top.kind = "element"
    /\ Top.stage = "call"
    /\ LET self == Top.elem
           name == get_name(self)
           root_element == XMLElement_new(name.val)
       IN IF is_some(self.reference)
          THEN IF is_some(reference_conflict(self))
               THEN /\ stack' = Pop
                    /\ ret' = DataTypesFormatError(unwrap(reference_conflict(self)))
               ELSE LET found == reference_scan(unwrap(self.reference), elements)
                    IN IF is_err(found)
                       THEN /\ stack' = Pop
                            /\ ret' = found
                       ELSE /\ Len(stack) < MaxDepth
                            /\ stack' = Call([Top EXCEPT !.stage = "reference"],
                                             ElementFrame(found.val))
                            /\ UNCHANGED ret
          ELSE IF is_err(name)
          THEN /\ stack' = Pop
               /\ ret' = name
          ELSE IF is_some(self.type_info)
          THEN IF self.contents # <<>>
               THEN /\ stack' = Pop
                    /\ ret' = DataTypesFormatError(
                                "Data has a type and contains type elements")
               ELSE IF unwrap(self.type_info) \in PrimitiveBases
               THEN /\ stack' = Pop
                    /\ \E rnd \in RandomSources :
                         ret' = add_text(root_element,
                                         unwrap(generate_type(unwrap(self.type_info), rnd)))
               ELSE IF is_some(type_lookup(unwrap(self.type_info), data_types))
               THEN /\ Len(stack) < MaxDepth
                    /\ stack' = Call(
                         [Top EXCEPT !.stage = "type_output", !.node = root_element],
                         TypeFrame(unwrap(type_lookup(unwrap(self.type_info), data_types)),
                                   root_element))
                    /\ UNCHANGED ret
               ELSE /\ stack' = Pop
                    /\ ret' = type_not_found(unwrap(self.type_info))
          ELSE IF self.contents = <<>>
          THEN /\ stack' = Pop
               /\ ret' = Ok(root_element)
          ELSE /\ Len(stack) < MaxDepth
               /\ stack' = Call(
                    [Top EXCEPT !.stage = "contents", !.node = root_element, !.idx = 1],
                    TypeFrame(self.contents[1], root_element))
               /\ UNCHANGED ret
    /\ UNCHANGED <<xsd_string, schemas, previous, elements, data_types, pc, root, result>>

\* a faulty variant of try_error: the error is wrapped anew
try_error_wrapped(r) == XMLBuilderError(r.msg)

\* the ? operator on an Err: the function returns the error it got (the
\* conversion From<XMLGeneratorError> for XMLGeneratorError is the identity)
try_error(r) == r

\* ElementGenerator::generate, when the call it made returns
ElementReturn ==
    /\ pc = "building"
    /\ stack # <<>>
    /\ ret.tag # "None"
    /\ Top.kind = "element"
    /\ IF Top.stage = "contents" /\ is_ok(ret) /\ Top.idx < Len(Top.elem.contents)
       THEN /\ stack' = Call([Top EXCEPT !.node = ret.val, !.idx = @ + 1],
                             TypeFrame(Top.elem.contents[Top.idx + 1], ret.val))
            /\ ret' = NoResult
       ELSE /\ stack' = Pop
            /\ ret' = IF is_err(ret) THEN try_error(ret) ELSE ret
    /\ UNCHANGED <<xsd_string, schemas, previous, elements, data_types, pc, root, result>>

\* a faulty variant of type_info_conflict: the groups are not looked at
type_info_conflict_elements_only(self) ==
    IF self.elements # <<>>
    THEN Some("Type includes type information and elements")
    ELSE None

\* TypeGenerator::generate: what a type with type_info must not have
type_info_conflict(self) ==
    IF self.elements # <<>>
    THEN Some("Type includes type information and elements")
    ELSE IF self.groups # <<>>
    THEN Some("Type includes type information and groups")
    ELSE None

\* TypeGenerator::generate, the part for a type with type_info; a panic of
\* the value generator unwinds the whole stack
TypeGenerate ==
    /\ pc = "building"
    /\ stack # <<>>
    /\ ret.tag = "None"
    /\ Top.kind = "type"
    /\ Top.stage = "call"
    /\ LET self == Top.type
       IN IF self.type_info # <<>>
          THEN IF is_some(type_info_conflict(self))
               THEN /\ stack' = Pop
                    /\ ret' = DataTypesFormatError(unwrap(type_info_conflict(self)))
               ELSE \E rnd \in RandomSources :
                      LET output == generate(self.type_info, rnd)
                      IN IF output = Panic
                         THEN /\ stack' = <<>>
                              /\ ret' = Panicked(Panic[2])
                         ELSE IF output = None
                         THEN /\ stack' = Pop
                              /\ ret' = DataTypeError("No output generated")
                         ELSE IF is_err(add_text(Top.node, unwrap(output)))
                         THEN /\ stack' = Pop
                              /\ ret' = XMLBuilderError(
                                          add_text(Top.node, unwrap(output)).msg)
                         ELSE /\ stack' = [stack EXCEPT ![Len(stack)] =
                                   [Top EXCEPT !.stage = "children", !.idx = 1,
                                     !.node = add_text(Top.node, unwrap(output)).val]]
                              /\ UNCHANGED ret
          ELSE /\ stack' = [stack EXCEPT ![Len(stack)] =
                              [Top EXCEPT !.stage = "children", !.idx = 1]]
               /\ UNCHANGED ret
    /\ UNCHANGED <<xsd_string, schemas, previous, elements, data_types, pc, root, result>>

\* TypeGenerator::generate: element.generate for the next child element
TypeChild ==
    /\ pc = "building"
    /\ stack # <<>>
    /\ ret.tag = "None"
    /\ Top.kind = "type"
    /\ Top.stage = "children"
    /\ Top.idx <= Len(ChildElements(Top.type))
    /\ Len(stack) < MaxDepth
    /\ stack' = Append(stack, ElementFrame(ChildElements(Top.type)[Top.idx]))
    /\ UNCHANGED <<xsd_string, schemas, previous, elements, data_types, pc, root, ret, result>>

\* TypeGenerator::generate: the child element is back: an error ends the
\* call, a node is added to the element
TypeChildReturn ==
    /\ pc = "building"
    /\ stack # <<>>
    /\ ret.tag # "None"
    /\ Top.kind = "type"
    /\ IF is_err(ret)
       THEN /\ stack' = Pop
            /\ ret' = try_error(ret)
       ELSE IF is_err(add_child(Top.node, ret.val))
       THEN /\ stack' = Pop
            /\ ret' = XMLBuilderError(
                        IF Top.idx <= Len(Top.type.elements)
                        THEN "Unable to add child to element"
                        ELSE "Unable to add group child to element")
       ELSE /\ stack' = [stack EXCEPT ![Len(stack)] =
                           [Top EXCEPT !.idx = @ + 1,
                                       !.node = add_child(Top.node, ret.val).val]]
            /\ ret' = NoResult
    /\ UNCHANGED <<xsd_string, schemas, previous, elements, data_types, pc, root, result>>

\* TypeGenerator::generate: after the last child, the attributes, and
\* return; a panic of the value generator unwinds the whole stack
TypeAttributes ==
    /\ pc = "building"
    /\ stack # <<>>
    /\ ret.tag = "None"
    /\ Top.kind = "type"
    /\ Top.stage = "children"
    /\ Top.idx > Len(ChildElements(Top.type))
    /\ \E rnd \in RandomSources :
         ret' = generate_attributes(Top.type.attributes, Top.node, data_types, rnd, 1)
    /\ stack' = IF ret'.tag = "Panic" THEN <<>> ELSE Pop
    /\ UNCHANGED <<xsd_string, schemas, previous, elements, data_types, pc, root, result>>

\* the XML document generate_output writes: the declaration and the root
Document(root_element) ==
    [version |-> "1.1", encoding |-> "UTF-8", root_element |-> root_element]

\* generate_output, when the root element's generate returns (or the
\* thread has panicked: then the panic is all that is left of the run)
WriteOutput ==
    /\ pc = "building"
    /\ stack = <<>>
    /\ ret.tag # "None"
    /\ result' = IF is_ok(ret) THEN Ok(Document(ret.val)) ELSE ret
    /\ pc' = "done"
    /\ UNCHANGED <<xsd_string, schemas, previous, elements, data_types, root, stack, ret>>

Next ==
    \/ CheckElements
    \/ FindRoot
    \/ GenerateOutput
    \/ ElementGenerate
    \/ ElementReturn
    \/ TypeGenerate
    \/ TypeChild
    \/ TypeChildReturn
    \/ TypeAttributes
    \/ WriteOutput

Spec == Init /\ [][Next]_vars

\* ------------------------------------------------------------------------
\* TypeGenerator::generate on its own: one call with any TypeGenerator of a
\* bounded set and an element that is fresh or already has text
\* ------------------------------------------------------------------------

\* the values of the struct TypeGenerator the call is explored for
TypeGenerators ==
    { [name |-> "T", type_info |-> info, elements |-> es, groups |-> gs,
       attributes |-> attrs, min |-> 1, max |-> None] :
        info \in {<<>>, <<"string">>, <<"date">>, <<"string", "[A-Z]{3}">>,
                  <<"integer", "5">>},
        es \in {<<>>, <<Element(Some("B"), None, Some("U"), <<>>)>>,
                <<Element(Some("C"), None, Some("string"), <<>>),
                  Element(Some("B"), None, Some("U"), <<>>)>>},
        gs \in {<<>>, <<Group(<<Element(Some("A"), None, Some("string"), <<>>)>>)>>,
                <<Group(<<Element(Some("A"), None, Some("string"), <<>>),
                          Element(Some("D"), None, Some("string"), <<>>)>>),
                  Group(<<Element(Some("F"), None, Some("boolean"), <<>>)>>)>>},
        attrs \in {<<>>, <<Attribute("a", "Required", "string")>>,
                   <<Attribute("a", "Optional", "U")>>,
                   <<Attribute("a", "Required", "string"),
                     Attribute("b", "Optional", "integer")>>,
                   <<Attribute("p", "Prohibited", "string"),
                     Attribute("b", "Required", "U"),
                     Attribute("a", "Optional", "boolean")>>} }

\* the elements the call is given
XMLElements ==
    { XMLElement_new("E"), [XMLElement_new("E") EXCEPT !.text = Some("text")] }

TypeOutputInit ==
    /\ xsd_string = NoText
    /\ schemas = <<>>
    /\ previous = None
    /\ elements = <<Element(Some("E"), None, Some("T"), <<>>)>>
    /\ data_types \in {<<>>, <<SimpleType("U", <<"integer">>)>>}
    /\ pc = "building"
    /\ root = NoResult
    /\ \E t \in TypeGenerators, xml_element \in XMLElements :
         stack = <<TypeFrame(t, xml_element)>>
    /\ ret = NoResult
    /\ result = NoResult

\* the call returns to its caller
TypeOutputReturn ==
    /\ pc = "building"
    /\ stack = <<>>
    /\ ret.tag # "None"
    /\ result' = ret
    /\ pc' = "done"
    /\ UNCHANGED <<xsd_string, schemas, previous, elements, data_types, root, stack, ret>>

TypeOutputNext ==
    \/ ElementGenerate
    \/ ElementReturn
    \/ TypeGenerate
    \/ TypeChild
    \/ TypeChildReturn
    \/ TypeAttributes
    \/ TypeOutputReturn

TypeOutputSpec == TypeOutputInit /\ [][TypeOutputNext]_vars

\* ------------------------------------------------------------------------
\* generate_xml from the schema text on: the parser, the two collectors,
\* and then the steps above
\* ------------------------------------------------------------------------

CollectInit ==
    /\ xsd_string \in XsdStrings
    /\ schemas = <<>>
    /\ previous = None
    /\ elements = <<>>
    /\ data_types = <<>>
    /\ pc = "parse"
    /\ root = NoResult
    /\ stack = <<>>
    /\ ret = NoResult
    /\ result = NoResult

\* generate_xml: let schemas = generate_schema(xsd_string)?
GenerateSchema ==
    /\ pc = "parse"
    /\ LET parsed == generate_schema(xsd_string)
       IN IF is_err(parsed)
          THEN /\ result' = parsed
               /\ pc' = "done"
               /\ UNCHANGED schemas
          ELSE /\ schemas' = parsed.val
               /\ pc' = "fetch_types"
               /\ UNCHANGED result
    /\ UNCHANGED <<xsd_string, previous, elements, data_types, root, stack, ret>>

\* generate_xml: let data_types = fetch_types(&schemas); a panic of a
\* collector ends the run
FetchTypes ==
    /\ pc = "fetch_types"
    /\ LET types == fetch_types(schemas)
       IN IF is_ok(types)
          THEN /\ data_types' = types.val
               /\ pc' = "generate_elements"
               /\ UNCHANGED result
          ELSE /\ result' = types
               /\ pc' = "done"
               /\ UNCHANGED data_types
    /\ UNCHANGED <<xsd_string, schemas, previous, elements, root, stack, ret>>

\* generate_xml: let elements = generate_elements(&schemas); a panic of a
\* collector ends the run
GenerateElements ==
    /\ pc = "generate_elements"
    /\ LET found == fetch_elements(schemas)
       IN IF is_ok(found)
          THEN /\ elements' = found.val
               /\ pc' = "elements"
               /\ UNCHANGED result
          ELSE /\ result' = found
               /\ pc' = "done"
               /\ UNCHANGED elements
    /\ UNCHANGED <<xsd_string, schemas, previous, data_types, root, stack, ret>>

CollectNext ==
    \/ GenerateSchema
    \/ FetchTypes
    \/ GenerateElements
    \/ Next

CollectSpec == CollectInit /\ [][CollectNext]_vars

\* ------------------------------------------------------------------------
\* Two runs of the tree builder for one type table and one element list:
\* when generate_output has returned, it is called once more with the same
\* arguments, and draws its values anew
\* ------------------------------------------------------------------------

TwoRunsInit ==
    /\ elements \in TypedLists
    /\ data_types \in TypedTables
    /\ xsd_string = NoText
    /\ schemas = <<>>
    /\ previous = None
    /\ pc = "elements"
    /\ root = NoResult
    /\ stack = <<>>
    /\ ret = NoResult
    /\ result = NoResult

\* generate_output(root_element, &data_types, &elements), a second time
SecondRun ==
    /\ pc = "done"
    /\ is_ok(root)
    /\ previous = None
    /\ previous' = Some(result)
    /\ pc' = "build"
    /\ ret' = NoResult
    /\ result' = NoResult
    /\ UNCHANGED <<xsd_string, schemas, elements, data_types, root, stack>>

TwoRunsNext ==
    \/ Next
    \/ SecondRun

TwoRunsSpec == TwoRunsInit /\ [][TwoRunsNext]_vars

\* ------------------------------------------------------------------------
\* Notions the properties are stated in
\* ------------------------------------------------------------------------

Range(s) == { s[i] : i \in 1..Len(s) }

\* find_root_element has been called and has returned, and the tree builder
\* is not at work (it changes neither the element list nor the root)
RootSelected == root.tag # "None" /\ pc # "building"

\* every element nested in the inline contents of a top-level element has
\* a name or a reference
NestedNamed ==
    \A g \in Range(elements) : \A c \in Range(g.contents) :
        \A e \in Range(ChildElements(c)) : is_some(e.name) \/ is_some(e.reference)

\* the names of the elements nested in the inline contents of g
NestedNames(g) ==
    { IF is_some(e.name) THEN unwrap(e.name) ELSE unwrap(e.reference) :
        e \in { x \in UNION { Range(ChildElements(c)) : c \in Range(g.contents) } :
                  is_some(x.name) \/ is_some(x.reference) } }

\* the referenced names without the type_info strings
ReferencedNames ==
    UNION { (IF is_some(g.reference) THEN {unwrap(g.reference)} ELSE {})
            \cup NestedNames(g) : g \in Range(elements) }

\* the referenced names of section 4.4: with the non-empty type_info strings
ReferencedNamesWithTypes ==
    ReferencedNames
    \cup { unwrap(g.type_info) :
             g \in { x \in Range(elements) :
                       is_some(x.type_info) /\ unwrap(x.type_info) # "" } }

\* the first top-level element of the name is the one a referenced name finds
FirstOfName(i) ==
    /\ is_some(elements[i].name)
    /\ \A j \in 1..(i - 1) : elements[j].name # elements[i].name

\* top-level element i is dependent: it is equal (ElementGenerator::eq) to
\* the first top-level element of some referenced name
Dependent(i) ==
    \E j \in 1..Len(elements) :
        /\ FirstOfName(j)
        /\ unwrap(elements[j].name) \in ReferencedNames
        /\ ElementGenerator_eq(elements[j], elements[i])

Independent(i) == ~Dependent(i)

IndependentCount == Cardinality({ i \in 1..Len(elements) : Independent(i) })

\* the elements an element leads to: the element its reference resolves to,
\* the elements of its inline types, the elements of the type it names
Successors(e) ==
    { g \in Range(elements) :
        /\ is_some(e.reference)
        /\ is_ok(get_name(g))
        /\ get_name(g).val = unwrap(e.reference) }
    \cup UNION { Range(ChildElements(c)) : c \in Range(e.contents) }
    \cup UNION { Range(ChildElements(t)) :
                   t \in { x \in Range(data_types) :
                             is_some(e.type_info) /\ x.name = unwrap(e.type_info) } }

RECURSIVE ReachableFrom(_)

\* the elements reachable from the set S in zero or more steps
ReachableFrom(S) ==
    LET more == S \cup UNION { Successors(e) : e \in S }
    IN IF more = S THEN S ELSE ReachableFrom(more)

\* every element the top-level elements lead to, themselves included
AllElements == ReachableFrom(Range(elements))

\* the element/type graph has a cycle: an element reachable from itself
Cyclic == \E e \in AllElements : e \in ReachableFrom(Successors(e))

\* the schema is one a valid XSD document collects to: every top-level
\* element has a name and no reference, top-level names are distinct, and
\* every nested element has a name or a reference
ValidSchema ==
    /\ \A i \in 1..Len(elements) :
         /\ is_some(elements[i].name)
         /\ elements[i].reference = None
         /\ \A j \in 1..Len(elements) :
              elements[i].name = elements[j].name => i = j
    /\ \A e \in AllElements : is_some(e.name) \/ is_some(e.reference)

\* no element, top-level or nested, carries a reference
NoReferences ==
    \A g \in Range(elements) :
        /\ g.reference = None
        /\ \A c \in Range(g.contents) :
             \A e \in Range(ChildElements(c)) : e.reference = None

\* ------------------------------------------------------------------------
\* Properties
\* ------------------------------------------------------------------------

BuilderEntered == pc \in {"build", "building"} \/ stack # <<>> \/ ret.tag # "None"

\* C3, already on valid schemas: every schema whose element/type graph has
\* a cycle is rejected by root selection with DataTypesFormatError("No
\* independent elements found"), before the tree builder emits anything
C3_CyclicSchemaRejected ==
    (ValidSchema /\ Cyclic) =>
      /\ ~BuilderEntered
      /\ RootSelected =>
           /\ is_err(root)
           /\ root.kind = "DataTypesFormatError"
           /\ root.msg = "No independent elements found"

\* two frames of the recursion stack are calls for the same element, or for
\* the same type
SameCall(f, g) ==
    /\ f.kind = g.kind
    /\ IF f.kind = "element" THEN f.elem = g.elem ELSE f.type = g.type

\* C4, already on valid schemas: once root selection has succeeded, the
\* recursion of the tree builder never revisits the same element or type on
\* one recursion path
C4_NoRevisitOnPath ==
    ValidSchema =>
    \A i \in 1..Len(stack) : \A j \in 1..Len(stack) :
        i < j => ~SameCall(stack[i], stack[j])

\* C5: with an empty list of top-level elements generation fails with
\* DataTypesFormatError("No elements found") and nothing is emitted
C5_EmptyListFails ==
    elements = <<>> =>
      /\ is_err(find_root_element(elements))
      /\ find_root_element(elements).kind = "DataTypesFormatError"
      /\ find_root_element(elements).msg = "No elements found"
      /\ ~BuilderEntered
      /\ pc = "done" =>
           /\ is_err(result)
           /\ result.kind = "DataTypesFormatError"
           /\ result.msg = "No elements found"

\* generate_xml has ended for an empty element list
C5_Witness ==
    /\ elements = <<>>
    /\ pc = "done"
    /\ is_err(result)

C8_TestMessages ==
    (pc = "done" /\ RootSelected /\ is_err(root)) =>
      /\ is_err(result)
      /\ result.kind = "DataTypesFormatError"
      /\ (NestedNamed /\ IndependentCount = 0)
           => result.msg = "No independent structs found"
      /\ (NestedNamed /\ IndependentCount > 1)
           => result.msg = "Multiple independent structs found!"

\* C9, already on valid schemas: of a list of exactly one top-level element
\* in which no element carries a reference, find_root_element returns that
\* element
C9_SingleElementIsRoot ==
    (ValidSchema /\ RootSelected /\ Len(elements) = 1 /\ NoReferences) =>
      /\ is_ok(root)
      /\ root.val = elements[1]

\* the label C10 allows for a node emitted for the element e
Labelled(e, node) ==
    IF is_some(e.reference)
    THEN /\ node.tag = unwrap(e.reference)
         /\ \E g \in Range(elements) : g.name = e.reference
    ELSE e.name = Some(node.tag)

\* C10: the node a call of ElementGenerator::generate returns is labelled
\* with the name of its element or, when the element carries a reference,
\* with the name of the top-level element of that name
C10_NodeLabels ==
    [][ ( /\ pc = "building"
          /\ stack # <<>>
          /\ Top.kind = "element"
          /\ stack' = Pop
          /\ is_ok(ret') )
        => Labelled(Top.elem, ret'.val) ]_vars

\* a call for an element that carries a reference has returned a node
C10_Witness ==
    /\ pc = "building"
    /\ stack # <<>>
    /\ Top.kind = "element"
    /\ Top.stage = "reference"
    /\ is_ok(ret)
    /\ Len(stack) > 1

\* ------------------------------------------------------------------------
\* Attributes
\* ------------------------------------------------------------------------

RECURSIVE Resolved(_)

\* the element whose node a call for e returns: e, or the target of its
\* reference
Resolved(e) ==
    IF is_some(e.reference)
    THEN Resolved(reference_scan(unwrap(e.reference), elements).val)
    ELSE e

\* the types whose attributes a call for e emits: the named type of the
\* type table, or the inline types
SourceTypes(e) ==
    IF is_some(e.type_info)
    THEN IF unwrap(e.type_info) \in PrimitiveBases THEN <<>>
         ELSE type_lookup(unwrap(e.type_info), data_types)
    ELSE e.contents

\* the attributes of the source types of e
SourceAttributes(e) ==
    UNION { Range(SourceTypes(e)[i].attributes) : i \in 1..Len(SourceTypes(e)) }

AttributeNames(node) == { node.attributes[i][1] : i \in 1..Len(node.attributes) }

\* a call of ElementGenerator::generate returns a node
ElementReturnsNode ==
    /\ pc = "building"
    /\ stack # <<>>
    /\ Top.kind = "element"
    /\ stack' = Pop
    /\ is_ok(ret')

\* TypeGenerator::generate has emitted the children and is at its attributes
AtAttributes ==
    /\ pc = "building"
    /\ stack # <<>>
    /\ ret.tag = "None"
    /\ Top.kind = "type"
    /\ Top.stage = "children"
    /\ Top.idx > Len(ChildElements(Top.type))

\* C11: the attribute names of the node a call of ElementGenerator::generate
\* returns are names of Required or Optional attributes of the element's
\* source types, and every Required attribute of these types is on the node
C11_AttributesOfSourceType ==
    [][ ElementReturnsNode
        => LET attrs == SourceAttributes(Resolved(Top.elem))
           IN /\ AttributeNames(ret'.val) \subseteq
                   { a.name : a \in { b \in attrs : b.attribute_type # "Prohibited" } }
              /\ { a.name : a \in { b \in attrs : b.attribute_type = "Required" } }
                   \subseteq AttributeNames(ret'.val) ]_vars

\* C12: attribute emission for a type whose attributes are all Prohibited
\* returns success and leaves the element as it was, whether or not the
\* attributes have a name and a type name
C12_ProhibitedSkipped ==
    [][ ( /\ AtAttributes
          /\ Top.type.attributes # <<>>
          /\ \A a \in Range(Top.type.attributes) : a.attribute_type = "Prohibited" )
        => ( /\ is_ok(ret')
             /\ ret'.val = Top.node ) ]_vars

\* the value of an attribute of this type name cannot be generated: the
\* name is no primitive base, and no type of the table has the name or the
\* value generator returns no value for the chain of every type that has it
Ungenerable(type_name) ==
    /\ type_name \notin PrimitiveBases
    /\ \A t \in Range(data_types) :
         t.name = type_name =>
            /\ t.elements = <<>> /\ t.groups = <<>> /\ t.attributes = <<>>
            /\ t.type_info # <<>>
            /\ \A rnd \in RandomSources : generate(t.type_info, rnd) = None

\* C13: attribute emission for a type with one named and typed Required or
\* Optional attribute whose value cannot be generated fails with
\* DataTypeError
C13_UngenerableAttributeFails ==
    [][ ( /\ AtAttributes
          /\ Len(Top.type.attributes) = 1
          /\ Top.type.attributes[1].attribute_type # "Prohibited"
          /\ Top.type.attributes[1].name # ""
          /\ Top.type.attributes[1].type_name # ""
          /\ Ungenerable(Top.type.attributes[1].type_name) )
        => ( /\ is_err(ret')
             /\ ret'.kind = "DataTypeError" ) ]_vars

\* ------------------------------------------------------------------------
\* Named-type dispatch
\* ------------------------------------------------------------------------

\* ElementGenerator::generate is called for a named element whose only
\* content is the type name of a primitive base
AtPrimitiveElement ==
    /\ pc = "building"
    /\ stack # <<>>
    /\ ret.tag = "None"
    /\ Top.kind = "element"
    /\ Top.stage = "call"
    /\ Top.elem.reference = None
    /\ is_some(Top.elem.name)
    /\ is_some(Top.elem.type_info)
    /\ unwrap(Top.elem.type_info) \in PrimitiveBases
    /\ Top.elem.contents = <<>>

\* every attribute of the type has a name, is not Prohibited and has the
\* type name of a primitive base
PrimitiveAttributes(t) ==
    \A a \in Range(t.attributes) :
        /\ a.name # ""
        /\ a.attribute_type # "Prohibited"
        /\ a.type_name \in PrimitiveBases

\* C14: an element whose type name is a primitive base gets a value of that
\* base as its text and nothing else, and an attribute whose type name is a
\* primitive base gets a value of that base, whatever the type table holds
\* under the same name
C14_PrimitiveBeforeTypeTable ==
    [][ /\ AtPrimitiveElement
          => /\ stack' = Pop
             /\ is_ok(ret')
             /\ ret'.val.tag = unwrap(Top.elem.name)
             /\ ret'.val.text \in
                   { Some(v) : v \in Sample(unwrap(Top.elem.type_info)) }
             /\ ret'.val.children = <<>>
             /\ ret'.val.attributes = <<>>
        /\ (AtAttributes /\ PrimitiveAttributes(Top.type))
          => /\ is_ok(ret')
             /\ Len(ret'.val.attributes) =
                   Len(Top.node.attributes) + Len(Top.type.attributes)
             /\ \A i \in 1..Len(Top.type.attributes) :
                   LET attr == ret'.val.attributes[Len(Top.node.attributes) + i]
                   IN /\ attr[1] = Top.type.attributes[i].name
                      /\ attr[2] \in Sample(Top.type.attributes[i].type_name) ]_vars

\* an attribute has been attached while the type table holds a type under
\* the name of a primitive base
C14_Witness ==
    /\ pc = "building"
    /\ is_ok(ret)
    /\ ret.val.attributes # <<>>
    /\ \E t \in Range(data_types) : t.name \in PrimitiveBases

\* C15: an element whose type name is neither a primitive base nor the name
\* of a type of the type table fails with DataTypeError and the message
\* "Cannot find data type: " followed by the type name
C15_UnknownTypeFails ==
    [][ ( /\ pc = "building"
          /\ stack # <<>>
          /\ ret.tag = "None"
          /\ Top.kind = "element"
          /\ Top.stage = "call"
          /\ Top.elem.reference = None
          /\ is_some(Top.elem.name)
          /\ is_some(Top.elem.type_info)
          /\ Top.elem.contents = <<>>
          /\ unwrap(Top.elem.type_info) \notin PrimitiveBases
          /\ \A t \in Range(data_types) : t.name # unwrap(Top.elem.type_info) )
        => ( /\ stack' = Pop
             /\ is_err(ret')
             /\ ret'.kind = "DataTypeError"
             /\ ret'.msg = "Cannot find data type: " \o unwrap(Top.elem.type_info) ) ]_vars

\* the tree builder has failed on an element of an unknown type, in a
\* schema whose type table is not empty
C15_Witness ==
    /\ pc = "done"
    /\ is_err(result)
    /\ result.kind = "DataTypeError"
    /\ result.msg = "Cannot find data type: A"
    /\ data_types # <<>>

\* ------------------------------------------------------------------------
\* The value generator
\* ------------------------------------------------------------------------

\* the chains for which the value generator is said to return a value: one
\* token that is a primitive base, or two tokens the first of which is
\* "string" in any letter case
GeneratesValue(chain) ==
    \/ Len(chain) = 1 /\ chain[1] \in PrimitiveBases
    \/ Len(chain) = 2 /\ to_lowercase(chain[1]) = "string"

\* TypeGenerator::generate is called for a simple type and is about to call
\* the value generator with its chain
AtValueGenerator ==
    /\ pc = "building"
    /\ stack # <<>>
    /\ ret.tag = "None"
    /\ Top.kind = "type"
    /\ Top.stage = "call"
    /\ Top.type.type_info # <<>>
    /\ Top.type.elements = <<>>
    /\ Top.type.groups = <<>>

\* C16: called with the chain of a simple type, the value generator returns
\* a value, which becomes the text of the element, exactly when the chain is
\* one primitive base or "string" (in any letter case) and one more token;
\* for every other chain it returns no value
C16_ValueByChain ==
    [][ AtValueGenerator
        => IF GeneratesValue(Top.type.type_info)
           THEN /\ Len(stack') = Len(stack)
                /\ is_some(stack'[Len(stack')].node.text)
           ELSE /\ is_err(ret')
                /\ ret'.msg = "No output generated" ]_vars

\* ------------------------------------------------------------------------
\* The type-output procedure
\* ------------------------------------------------------------------------

\* C17: a call of TypeGenerator::generate for a type with type_info fails
\* with DataTypesFormatError when the type has elements or groups, fails
\* with DataTypeError("No output generated") when the value generator
\* returns no value, and returns success only with an element that has text
C17_SimpleTypeOutput ==
    [][ /\ ( /\ pc = "building"
              /\ stack # <<>>
              /\ ret.tag = "None"
              /\ Top.kind = "type"
              /\ Top.stage = "call"
              /\ Top.type.type_info # <<>> )
          => /\ (Top.type.elements # <<>> \/ Top.type.groups # <<>>)
                  => /\ stack' = Pop
                     /\ is_err(ret')
                     /\ ret'.kind = "DataTypesFormatError"
             /\ ( /\ Top.type.elements = <<>>
                   /\ Top.type.groups = <<>>
                   /\ \A rnd \in RandomSources :
                        generate(Top.type.type_info, rnd) = None )
                  => /\ stack' = Pop
                     /\ is_err(ret')
                     /\ ret'.kind = "DataTypeError"
                     /\ ret'.msg = "No output generated"
        /\ ( /\ pc = "building"
              /\ stack # <<>>
              /\ Top.kind = "type"
              /\ Top.type.type_info # <<>>
              /\ stack' = Pop
              /\ is_ok(ret') )
          => is_some(ret'.val.text) ]_vars

\* a call for a type with type_info and groups has failed
C17_Witness ==
    /\ pc = "done"
    /\ is_err(result)
    /\ result.msg = "Type includes type information and groups"

\* ------------------------------------------------------------------------
\* References
\* ------------------------------------------------------------------------

\* ElementGenerator::generate is called for an element with a reference
AtReference ==
    /\ pc = "building"
    /\ stack # <<>>
    /\ ret.tag = "None"
    /\ Top.kind = "element"
    /\ Top.stage = "call"
    /\ is_some(Top.elem.reference)

\* C18: a call for an element that has a reference and a type name, or a
\* reference and inline contents, fails with DataTypesFormatError without a
\* node and without a call for the target of the reference
C18_ContradictoryReferenceFails ==
    [][ ( /\ AtReference
          /\ (is_some(Top.elem.type_info) \/ Top.elem.contents # <<>>) )
        => ( /\ stack' = Pop
             /\ is_err(ret')
             /\ ret'.kind = "DataTypesFormatError"
             /\ ret'.val = NoNode ) ]_vars

\* the tree builder has failed on a reference with inline contents whose
\* target is not in the element list
C18_Witness ==
    /\ pc = "done"
    /\ is_err(result)
    /\ result.msg = "Element references another element an contains content"
    /\ \A e \in Range(elements) : e.name # Some("B")

\* C19: a call for an element whose reference is the get_name() of no
\* top-level element fails with XMLBuilderError("Reference not found")
C19_UnresolvedReferenceFails ==
    [][ ( /\ AtReference
          /\ Top.elem.type_info = None
          /\ Top.elem.contents = <<>>
          /\ \A e \in Range(elements) :
                ~(is_ok(get_name(e)) /\ get_name(e).val = unwrap(Top.elem.reference)) )
        => ( /\ stack' = Pop
             /\ is_err(ret')
             /\ ret'.kind = "XMLBuilderError"
             /\ ret'.msg = "Reference not found" ) ]_vars

\* the tree builder has failed on a reference that no element of a list of
\* more than one element answers
C19_Witness ==
    /\ pc = "done"
    /\ is_err(result)
    /\ result.kind = "XMLBuilderError"
    /\ result.msg = "Reference not found"
    /\ Len(elements) > 1

\* ------------------------------------------------------------------------
\* Cardinality
\* ------------------------------------------------------------------------

\* the number of children of the node that are instances of the i-th child
\* position of the type (the child positions of a type of the model have
\* different names)
Instances(node, t, i) ==
    Cardinality({ k \in 1..Len(node.children) :
                    node.children[k].tag = get_name(ChildElements(t)[i]).val })

\* C20: when TypeGenerator::generate has emitted the children of a type,
\* every child position has at least min and, when max is present, at most
\* max instances among the children of the element
C20_InstancesWithinBounds ==
    AtAttributes
    => \A i \in 1..Len(ChildElements(Top.type)) :
          LET position == ChildElements(Top.type)[i]
          IN /\ Instances(Top.node, Top.type, i) >= position.min
             /\ is_some(position.max)
                  => Instances(Top.node, Top.type, i) <= unwrap(position.max)

\* ------------------------------------------------------------------------
\* Order
\* ------------------------------------------------------------------------

\* where the child with this tag is among the children of the node
ChildIndex(node, tag) ==
    CHOOSE k \in 1..Len(node.children) : node.children[k].tag = tag

\* where the attribute with this name is among the attributes of the node
AttributeIndex(node, name) ==
    CHOOSE k \in 1..Len(node.attributes) : node.attributes[k][1] = name

\* the children of the node are one per child position of the type, and the
\* child positions have different names
OnePerPosition(node, t) ==
    /\ Len(node.children) =
         Len(t.elements)
         + Len(Flatten([g \in 1..Len(t.groups) |-> t.groups[g].elements]))
    /\ \A k, l \in 1..Len(node.children) :
         node.children[k].tag = node.children[l].tag => k = l

\* C21: when TypeGenerator::generate has emitted the children of a type, the
\* children for its direct elements come in the order of the elements and
\* before the children for the members of its groups, the children for the
\* members of an earlier group come before those of a later group, and the
\* children for the members of one group come in the order of the members;
\* the attributes it then attaches come in the order of the type's attributes
C21_SourceOrder ==
    [][ (AtAttributes /\ OnePerPosition(Top.node, Top.type))
        => LET t == Top.type
               node == Top.node
               name(e) == get_name(e).val
           IN /\ \A i, j \in 1..Len(t.elements) :
                   i < j => ChildIndex(node, name(t.elements[i]))
                              < ChildIndex(node, name(t.elements[j]))
              /\ \A i \in 1..Len(t.elements) : \A g \in 1..Len(t.groups) :
                   \A m \in 1..Len(t.groups[g].elements) :
                      ChildIndex(node, name(t.elements[i]))
                        < ChildIndex(node, name(t.groups[g].elements[m]))
              /\ \A g, h \in 1..Len(t.groups) :
                   \A m \in 1..Len(t.groups[g].elements) :
                     \A n \in 1..Len(t.groups[h].elements) :
                        (g < h \/ (g = h /\ m < n))
                        => ChildIndex(node, name(t.groups[g].elements[m]))
                             < ChildIndex(node, name(t.groups[h].elements[n]))
              /\ is_ok(ret')
                   => /\ ret'.val.children = node.children
                      /\ \A i, j \in 1..Len(t.attributes) :
                           ( /\ i < j
                             /\ t.attributes[i].name \in AttributeNames(ret'.val)
                             /\ t.attributes[j].name \in AttributeNames(ret'.val) )
                           => AttributeIndex(ret'.val, t.attributes[i].name)
                                < AttributeIndex(ret'.val, t.attributes[j].name) ]_vars

\* a call for a type with two direct elements, two groups and two emitted
\* attributes has returned an element with five children and two attributes
C21_Witness ==
    /\ pc = "done"
    /\ is_ok(result)
    /\ Len(result.val.children) = 5
    /\ Len(result.val.attributes) = 2

\* ------------------------------------------------------------------------
\* Errors of the tree builder
\* ------------------------------------------------------------------------

\* an error is on its way up the calls of the tree builder
ErrorInFlight == pc = "building" /\ is_err(ret)

\* C22: an error of the tree builder goes up one call at every step, the
\* same error and with nothing done to the elements of the callers, and from
\* the outermost call it becomes the result of the run: the result is then
\* that error and no document
C22_ErrorPropagates ==
    [][ ErrorInFlight
        => IF stack # <<>>
           THEN /\ stack' = Pop
                /\ ret' = ret
                /\ result' = result
                /\ pc' = pc
           ELSE /\ result' = ret
                /\ result'.val = NoNode
                /\ pc' = "done" ]_vars

\* the second child of a type has failed after the first was added to the
\* element, and the error is on its way up
C22_Witness ==
    /\ ErrorInFlight
    /\ \E k \in 1..Len(stack) :
         /\ stack[k].kind = "type"
         /\ stack[k].stage = "children"
         /\ Len(stack[k].node.children) > 0
         /\ stack[k].idx <= Len(ChildElements(stack[k].type))

\* ------------------------------------------------------------------------
\* The parser and the collectors
\* ------------------------------------------------------------------------

\* the schema has an item with a construct the collectors do not implement
HasUnsupported ==
    \E i \in 1..Len(xsd_string.content) : xsd_string.content[i] \in UnsupportedItems

\* C23: when the schema has a construct the collectors do not implement,
\* generate_xml returns an XSDParserError to its caller
C23_UnsupportedIsParserError ==
    (pc = "done" /\ HasUnsupported)
    => (is_err(result) /\ result.kind = "XSDParserError")

\* the upstream parser fails on the schema text
ParserFails == is_some(xsd_string.error)

\* C24: when the upstream parser fails on the schema text, generate_xml
\* returns an XSDParserError with the message of the parser, and has
\* collected no type and no element, selected no root and built nothing
C24_ParserErrorReturned ==
    (ParserFails /\ pc # "parse")
    => /\ pc = "done"
       /\ is_err(result)
       /\ result.kind = "XSDParserError"
       /\ result.msg = unwrap(xsd_string.error)
       /\ schemas = <<>>
       /\ data_types = <<>>
       /\ elements = <<>>
       /\ root = NoResult
       /\ stack = <<>>
       /\ ret = NoResult

\* generate_xml has returned for the text that ends after the XML
\* declaration
C24_Witness ==
    /\ pc = "done"
    /\ xsd_string.error = Some("XML Error: Unexpected event: Eof!; position=0")
    /\ is_err(result)

\* ------------------------------------------------------------------------
\* Dependence of top-level elements of one name
\* ------------------------------------------------------------------------

\* top-level elements i and j are two elements of one name
SameName(i, j) ==
    /\ i # j
    /\ is_some(elements[i].name)
    /\ elements[i].name = elements[j].name

\* top-level element i is among the dependent elements of root selection
IsDependent(i) == contains(dependent_elements(elements), elements[i])

\* C25 as stated: two top-level elements of one name are both dependent or
\* both independent, whatever their type_info, contents, reference and
\* cardinality
C25_DependentByNameOnly ==
    RootSelected =>
      \A i, j \in 1..Len(elements) :
          SameName(i, j) => (IsDependent(i) <=> IsDependent(j))

\* C25 as amended: two top-level elements of one name, one type_info and
\* the same contents are both dependent or both independent, whatever their
\* cardinality; an element of a referenced name is dependent when it is the
\* first of its name, and a later element of that name is dependent exactly
\* when it is equal to the first by ElementGenerator::eq, which compares
\* type_info and contents next to the name
C25_DependentByNameTypeContents ==
    RootSelected =>
      \A i, j \in 1..Len(elements) :
          /\ ( /\ SameName(i, j)
               /\ elements[i].type_info = elements[j].type_info
               /\ elements[i].contents = elements[j].contents )
             => (IsDependent(i) <=> IsDependent(j))
          /\ ( /\ SameName(i, j)
               /\ FirstOfName(i)
               /\ unwrap(elements[i].name) \in ReferencedNames )
             => /\ IsDependent(i)
                /\ IsDependent(j) <=> ElementGenerator_eq(elements[i], elements[j])

\* two top-level elements of one name, one type_info and the same contents
\* but different cardinality are both dependent
C25_Witness ==
    /\ RootSelected
    /\ \E i, j \in 1..Len(elements) :
         /\ SameName(i, j)
         /\ elements[i].type_info = elements[j].type_info
         /\ elements[i].contents = elements[j].contents
         /\ elements[i].min # elements[j].min
         /\ IsDependent(i)
         /\ IsDependent(j)

\* ------------------------------------------------------------------------
\* Attributes of a type of the type table
\* ------------------------------------------------------------------------

\* the one type of the table with this name
TableEntry(type_name) ==
    CHOOSE t \in Range(data_types) : t.name = type_name

\* TypeGenerator::generate is at the attributes of a type with one named
\* Required or Optional attribute, whose type name gives no value as a
\* primitive and is the name of exactly one type of the table
AtTableAttribute ==
    /\ AtAttributes
    /\ Len(Top.type.attributes) = 1
    /\ Top.type.attributes[1].attribute_type # "Prohibited"
    /\ Top.type.attributes[1].name # ""
    /\ Top.type.attributes[1].type_name # ""
    /\ \A rnd \in RandomSources :
          generate(<<Top.type.attributes[1].type_name>>, rnd) = None
    /\ Cardinality({i \in 1..Len(data_types) :
                       data_types[i].name = Top.type.attributes[1].type_name}) = 1

\* C26: attribute emission for a type name that resolves to a type of the
\* table fails with DataTypesFormatError when that type has no type_info or
\* has elements, groups or attributes, and otherwise attaches a value under
\* the name of the attribute
C26_TableAttribute ==
    [][ AtTableAttribute
        => LET attribute == Top.type.attributes[1]
               t == TableEntry(attribute.type_name)
           IN IF \/ t.type_info = <<>>
                 \/ t.elements # <<>>
                 \/ t.groups # <<>>
                 \/ t.attributes # <<>>
              THEN /\ is_err(ret')
                   /\ ret'.kind = "DataTypesFormatError"
              ELSE /\ is_ok(ret')
                   /\ attribute.name \in AttributeNames(ret'.val) ]_vars

\* ------------------------------------------------------------------------
\* One instance per child position
\* ------------------------------------------------------------------------

\* the child positions of a type: its direct elements, then the members of
\* its groups
Positions(t) ==
    t.elements \o Flatten([g \in 1..Len(t.groups) |-> t.groups[g].elements])

\* C27: when TypeGenerator::generate has emitted the children of a type, the
\* element has one child for every child position of the type, the k-th
\* child for the k-th position, whatever min and max of the position, of its
\* group and of the type are
C27_OneInstancePerPosition ==
    AtAttributes
    => /\ Len(Top.node.children) = Len(Positions(Top.type))
       /\ \A k \in 1..Len(Positions(Top.type)) :
            Top.node.children[k].tag = get_name(Positions(Top.type)[k]).val

\* the children of a type are emitted whose only child position, its group
\* and the type itself have min = 0 and max = 0: the element has one child
C27_Witness ==
    /\ AtAttributes
    /\ Len(Positions(Top.type)) = 1
    /\ Positions(Top.type)[1].min = 0
    /\ Positions(Top.type)[1].max = Some(0)
    /\ Top.type.groups[1].min = 0
    /\ Top.type.groups[1].max = Some(0)
    /\ Top.type.min = 0
    /\ Top.type.max = Some(0)
    /\ Len(Top.node.children) = 1

\* the schema is one top-level element with an inline simpleType without
\* a name
InlineSimpleSchema ==
    /\ xsd_string.error = None
    /\ Len(xsd_string.content) = 1
    /\ xsd_string.content[1].kind = "Element"
    /\ xsd_string.content[1].item \in InlineSimpleElementNodes

\* C28: the inline simpleType without a name of a top-level element is
\* collected into the contents of that element: once the collectors are
\* through, the element list holds the element, with one content type whose
\* type_info starts with the base of the restriction
C28_InlineSimpleTypeCollected ==
    (InlineSimpleSchema /\ pc \notin {"parse", "fetch_types", "generate_elements"})
    => /\ result.tag # "Panic"
       /\ Len(elements) = 1
       /\ Len(elements[1].contents) = 1
       /\ elements[1].contents[1].type_info # <<>>
       /\ elements[1].contents[1].type_info[1]
            = get_qname(unwrap(
                xsd_string.content[1].item.content[1].item.content[1].item.base))

\* the simpleType and complexType nodes of the parsed schema, in order
TypeNodes ==
    LET is_type(content) == content.kind \in {"SimpleType", "ComplexType"}
    IN Filter(is_type, schemas)

RECURSIVE NodeShape(_)

\* an element without its values: its tag, whether it has text, the shapes
\* of its children in order, the names of its attributes in order
NodeShape(node) ==
    [tag |-> node.tag,
     text |-> is_some(node.text),
     children |-> [k \in 1..Len(node.children) |-> NodeShape(node.children[k])],
     attributes |-> [k \in 1..Len(node.attributes) |-> node.attributes[k][1]]]

\* a result of generate_output without the values of its tree: an error
\* as it is, a document by the shape of its root element
ResultShape(r) ==
    [tag |-> r.tag, kind |-> r.kind, msg |-> r.msg,
     tree |-> IF is_ok(r) THEN NodeShape(r.val.root_element)
              ELSE NodeShape(NoNode)]

\* C30: two runs of the tree builder for one type table and one element
\* list both fail with the same error, or both return a tree, and the two
\* trees have the same tags, the same children in the same order, the same
\* attribute names and text at the same elements
C30_ShapeIndependentOfDraws ==
    (pc = "done" /\ is_some(previous))
    => ResultShape(result) = ResultShape(unwrap(previous))

\* two runs have returned trees that differ in a value
C30_Witness ==
    /\ pc = "done"
    /\ is_some(previous)
    /\ is_ok(result)
    /\ is_ok(unwrap(previous))
    /\ result # unwrap(previous)

\* the recursion stack is cut at MaxDepth only on a path that revisits an
\* element or a type
DepthCapOnlyOnRevisit ==
    Len(stack) = MaxDepth =>
      \E i \in 1..Len(stack) : \E j \in 1..Len(stack) :
          i < j /\ SameCall(stack[i], stack[j])

====
